---------------------------- MODULE Spec2Model ----------------------------
(* A model of gha-auth: the glob pattern matcher (matcher.go), the policy  *)
(* engine (policy.go), structural claim validation (claims.go) and the     *)
(* verifier's orchestration (Verifier.Verify).                             *)
(*                                                                         *)
(* A Go string is modelled as a sequence of one-character strings, so that *)
(* indexing and slicing are those of the code.  Go's 0-based s[i] and      *)
(* s[a:b] are the operators At and Slice below.                            *)
EXTENDS Integers, Sequences, FiniteSets, TLC

VARIABLES
    pattern,      \* Match: the pattern argument
    value,        \* Match: the value argument
    matchDone,    \* Match: whether the call has returned
    matchResult,  \* Match: the BOOLEAN returned (FALSE before the call)
    claims,       \* the GitHubActionsClaims handed to matchesRule / Evaluate
    rule,         \* matchesRule: the rule argument
    ruleDone,     \* matchesRule: whether the call has returned
    ruleResult,   \* matchesRule: the BOOLEAN returned (FALSE before the call)
    policy,       \* Evaluate: the receiver (possibly nil)
    evalDone,     \* Evaluate: whether the call has returned
    evalResult,   \* Evaluate: the EvaluationResult returned
    verifier,     \* the Verifier built by New: its policy and audience
    token,        \* Verify: the token being verified
    vpc,          \* Verify: the statement the call stands at
    steps,        \* Verify: the steps executed by the call so far, each
                  \*   with whether it passed
    outcome,      \* Verify: what the call returned
    cache,        \* JWKSFetcher.cache: the key identifiers held
    cachedAt,     \* JWKSFetcher.cachedAt
    now,          \* the wall clock
    validateDone, \* Validate: whether the call has returned
    validateResult, \* Validate: the error returned
    calls,        \* the Keyfunc / GetKey call each goroutine stands in
    mu,           \* JWKSFetcher.mu: "free" or the goroutine holding Lock
    lastCommit,   \* the key set and the time the last finished refresh wrote,
                  \* and the number of the fetch that obtained the set
    fetches,      \* the requests sent to the key-set endpoint so far
    jwks,         \* refresh: the JWKs of the decoded response
    refreshDone,  \* refresh: whether newCache has been built
    installed,    \* refresh: newCache, from kid to public key
    claimsDone,   \* GitHubActionsClaims.Validate: whether the call has returned
    claimsErr,    \* GitHubActionsClaims.Validate: the category returned
    runs,         \* two runs of one verifier, each with its own wall clock
    injected,     \* the reading of the Clock given with WithClock
    keyErr        \* Verify: the category of the error Keyfunc returned

matchVars == <<pattern, value, matchDone, matchResult>>
ruleVars == <<rule, ruleDone, ruleResult>>
evalVars == <<policy, evalDone, evalResult>>
verifyVars == <<verifier, token, vpc, steps, outcome>>
cacheVars == <<cache, cachedAt, now>>
validateVars == <<validateDone, validateResult>>
fetcherVars == <<calls, mu, lastCommit, fetches>>
refreshVars == <<jwks, refreshDone, installed>>
claimsVars == <<claimsDone, claimsErr>>
clockVars == <<runs, injected>>
vars == <<matchVars, claims, ruleVars, evalVars, verifyVars, cacheVars, validateVars,
          fetcherVars, refreshVars, claimsVars, clockVars, keyErr>>

---------------------------------------------------------------------------
(* Bounds of the enumerated inputs *)

MaxPat == 5   \* longest pattern drawn freely
MaxVal == 4   \* longest value drawn freely
MaxSeg == 2   \* longest literal P, S of the patterns P/**/S drawn on top
MaxActive == 2   \* most active conditions of a rule drawn for matchesRule
MaxChanged == 1  \* most attributes of the base claims changed at once
MaxRules == 2    \* longest rule list of a policy drawn for Evaluate
MaxTime == 3     \* the clock stops ticking at this time
MaxFetches == 2  \* no new key function call once this many requests were sent
MaxB64 == 2      \* longest n of a JWK drawn for refresh
MaxResolves == 2 \* most GetKey calls of a run of the verifier with a clock
CacheDuration == 2   \* JWKSFetcher.cacheDuration, in clock ticks

PatChars == {"a", "/", "*"}
ValChars == {"a", "b", "/"}
LitChars == {"a", "/"}

SeqsUpTo(S, n) == UNION {[1..k -> S] : k \in 0..n}

---------------------------------------------------------------------------
(* Go string primitives *)

At(s, i) == s[i + 1]
Slice(s, a, b) == SubSeq(s, a + 1, b)
SliceFrom(s, a) == SubSeq(s, a + 1, Len(s))

\* strings.IndexByte: the 0-based index of the first c in s, or -1
IndexByte(s, c) ==
    IF \E i \in 1..Len(s) : s[i] = c
    THEN (CHOOSE i \in 1..Len(s) : s[i] = c /\ \A j \in 1..(i - 1) : s[j] # c) - 1
    ELSE -1

---------------------------------------------------------------------------
(* matcher.go *)

\* DoubleStarAt with the length test off by one: a final ** is not seen
DoubleStarAt_offByOne(pat, pi) ==
    pi + 2 < Len(pat) /\ Slice(pat, pi, pi + 2) = <<"*", "*">>

\* line 33: the next two pattern bytes are "**"
DoubleStarAt(pat, pi) ==
    pi + 1 < Len(pat) /\ Slice(pat, pi, pi + 2) = <<"*", "*">>

\* SkipSeparator without the skip
SkipSeparator_noSkip(pat, pi) == pi

\* lines 42-45: skip optional separator after **
SkipSeparator(pat, pi) ==
    IF pi < Len(pat) /\ At(pat, pi) = "/" THEN pi + 1 ELSE pi

\* lines 61-67: the literal text after the * up to the next / of the pattern
suffix(pat, pi) ==
    LET nextSlash == IndexByte(SliceFrom(pat, pi), "/")
    IN  IF nextSlash >= 0 THEN Slice(pat, pi, pi + nextSlash) ELSE SliceFrom(pat, pi)

\* line 70
valueSlash(val, vi) == IndexByte(SliceFrom(val, vi), "/")

\* searchEnd without the stop at the next / of the value
searchEnd_crossSlash(val, vi) == Len(val)

\* lines 71-74
searchEnd(val, vi) ==
    IF valueSlash(val, vi) >= 0 THEN vi + valueSlash(val, vi) ELSE Len(val)

\* DoubleStarOffsets without the empty match: ** takes at least one byte
DoubleStarOffsets_nonEmpty(val, vi) == (vi + 1)..Len(val)

\* line 48: the offsets of the value at which the rest of the pattern is tried
DoubleStarOffsets(val, vi) == vi..Len(val)

\* lines 100-104: value exhausted but pattern remains
RestIsWildcard(pat, pi) ==
    LET rest == SliceFrom(pat, pi)
    IN  rest = <<"*">> \/ rest = <<"*", "*">> \/ rest = <<>>

RECURSIVE matchLoop(_, _, _, _)
\* lines 21-113: the for loop over the cursors pi, vi; a recursive call of
\* matchInternal on slices is matchLoop on the slices from cursors 0, 0
matchLoop(pat, val, pi, vi) ==
    IF pi >= Len(pat) /\ vi >= Len(val) THEN TRUE
    ELSE IF pi >= Len(pat) THEN FALSE
    ELSE IF DoubleStarAt(pat, pi) THEN
        LET p2 == pi + 2
        IN  IF p2 >= Len(pat) THEN TRUE
            ELSE LET p3 == SkipSeparator(pat, p2)
                 IN  \E i \in DoubleStarOffsets(val, vi) :
                        matchLoop(SliceFrom(pat, p3), SliceFrom(val, i), 0, 0)
    ELSE IF At(pat, pi) = "*" THEN
        LET p1 == pi + 1
        IN  IF suffix(pat, p1) = <<>>
            THEN IF valueSlash(val, vi) >= 0
                 THEN matchLoop(SliceFrom(pat, p1),
                                SliceFrom(val, vi + valueSlash(val, vi)), 0, 0)
                 ELSE matchLoop(SliceFrom(pat, p1), <<>>, 0, 0)
            ELSE \E i \in vi..searchEnd(val, vi) :
                    matchLoop(SliceFrom(pat, p1), SliceFrom(val, i), 0, 0)
    ELSE IF vi >= Len(val) THEN RestIsWildcard(pat, pi)
    ELSE IF At(pat, pi) # At(val, vi) THEN FALSE
    ELSE matchLoop(pat, val, pi + 1, vi + 1)

\* lines 16-19
matchInternal(pat, val) == matchLoop(pat, val, 0, 0)

\* lines 11-13
Match(pat, val) == matchInternal(pat, val)

\* lines 117-124
MatchAny(patterns, val) == \E k \in 1..Len(patterns) : Match(patterns[k], val)

---------------------------------------------------------------------------
(* policy.go *)

\* lines 8, 11
EffectAllow == "allow"
EffectDeny == "deny"

\* lines 15-42: the fields of Conditions, each a list of patterns
CondAttrs ==
    {"Repository", "RepositoryOwner", "RepositoryVisibility", "Ref", "RefType",
     "Workflow", "EventName", "Actor", "Environment"}

\* matchesRule without the test of an empty environment claim
matchesRule_noEmptyEnvTest(r, c) ==
    LET cond == r.Conditions
    IN  \A a \in CondAttrs : Len(cond[a]) > 0 => MatchAny(cond[a], c[a])

\* matchesRule returning after the first condition that matches (OR for AND)
matchesRule_anyCondition(r, c) ==
    LET cond == r.Conditions
    IN  \/ \A a \in CondAttrs : Len(cond[a]) = 0
        \/ \E a \in CondAttrs :
              /\ Len(cond[a]) > 0
              /\ MatchAny(cond[a], c[a])
              /\ (a = "Environment" => c.Environment # <<>>)

\* lines 120-168
matchesRule(r, c) ==
    LET cond == r.Conditions
    IN  IF Len(cond.Repository) > 0 /\ ~MatchAny(cond.Repository, c.Repository)
        THEN FALSE
        ELSE IF Len(cond.RepositoryOwner) > 0
                /\ ~MatchAny(cond.RepositoryOwner, c.RepositoryOwner)
        THEN FALSE
        ELSE IF Len(cond.RepositoryVisibility) > 0
                /\ ~MatchAny(cond.RepositoryVisibility, c.RepositoryVisibility)
        THEN FALSE
        ELSE IF Len(cond.Ref) > 0 /\ ~MatchAny(cond.Ref, c.Ref)
        THEN FALSE
        ELSE IF Len(cond.RefType) > 0 /\ ~MatchAny(cond.RefType, c.RefType)
        THEN FALSE
        ELSE IF Len(cond.Workflow) > 0 /\ ~MatchAny(cond.Workflow, c.Workflow)
        THEN FALSE
        ELSE IF Len(cond.EventName) > 0 /\ ~MatchAny(cond.EventName, c.EventName)
        THEN FALSE
        ELSE IF Len(cond.Actor) > 0 /\ ~MatchAny(cond.Actor, c.Actor)
        THEN FALSE
        ELSE IF Len(cond.Environment) > 0
        THEN IF c.Environment = <<>> THEN FALSE
             ELSE IF ~MatchAny(cond.Environment, c.Environment) THEN FALSE
             ELSE TRUE
        ELSE TRUE

\* FirstMatch taking the last matching rule
FirstMatch_lastWins(p, c) ==
    LET hits == {i \in 1..Len(p.Rules) : matchesRule(p.Rules[i], c)}
    IN  IF hits = {} THEN 0 ELSE CHOOSE i \in hits : \A j \in hits : j <= i

\* lines 88-89: the index of the first rule, in declaration order, that
\* matches (0 if the loop ends without a match)
FirstMatch(p, c) ==
    LET hits == {i \in 1..Len(p.Rules) : matchesRule(p.Rules[i], c)}
    IN  IF hits = {} THEN 0 ELSE CHOOSE i \in hits : \A j \in hits : i <= j

\* RuleResult allowing whatever is not an explicit deny
RuleResult_notDeny(r) ==
    [Allowed |-> (r.Effect # EffectDeny),
     MatchedRule |-> r.Name,
     Reason |-> IF r.Name # "" THEN <<"rule: ", r.Name>> ELSE <<"default">>]

\* lines 90-101: the result a matching rule gives; the reason is the
\* concatenation of the parts listed
RuleResult(r) ==
    [Allowed |-> (r.Effect = EffectAllow),
     MatchedRule |-> r.Name,
     Reason |-> IF r.Name # "" THEN <<"rule: ", r.Name>> ELSE <<"default">>]

\* DefaultResult with the flag read the wrong way round
DefaultResult_inverted(p) ==
    IF ~p.DefaultDeny
    THEN [Allowed |-> FALSE, MatchedRule |-> "", Reason |-> <<"default deny policy">>]
    ELSE [Allowed |-> TRUE, MatchedRule |-> "",
          Reason |-> <<"default allow (no matching rules)">>]

\* lines 105-116: no rule matched
DefaultResult(p) ==
    IF p.DefaultDeny
    THEN [Allowed |-> FALSE, MatchedRule |-> "", Reason |-> <<"default deny policy">>]
    ELSE [Allowed |-> TRUE, MatchedRule |-> "",
          Reason |-> <<"default allow (no matching rules)">>]

\* Evaluate with a nil policy treated as a policy without rules that denies
Evaluate_nilDenies(p, c) ==
    IF p.IsNil
    THEN [Allowed |-> FALSE, MatchedRule |-> "", Reason |-> <<"default deny policy">>]
    ELSE IF FirstMatch(p, c) # 0
         THEN RuleResult(p.Rules[FirstMatch(p, c)])
         ELSE DefaultResult(p)

\* lines 79-117; a nil *Policy is the record with IsNil set
Evaluate(p, c) ==
    IF p.IsNil
    THEN [Allowed |-> TRUE, MatchedRule |-> "", Reason |-> <<"no policy configured">>]
    ELSE IF FirstMatch(p, c) # 0
         THEN RuleResult(p.Rules[FirstMatch(p, c)])
         ELSE DefaultResult(p)

\* errors.go lines 60-78: a *PolicyError, and the nil error
NoPolicyError == [IsNil |-> TRUE, Rule |-> <<>>, Reason |-> ""]
PolicyError(ruleName, reason) == [IsNil |-> FALSE, Rule |-> ruleName, Reason |-> reason]

\* string(rune(i)): the one-character string of code point i
RuneString(i) == <<"U+", ToString(i)>>

\* line 181
ValidEffect(r) == r.Effect = EffectAllow \/ r.Effect = EffectDeny

\* lines 186-194: some condition of the rule lists a pattern
HasConditions(r) ==
    ~ (/\ Len(r.Conditions.Repository) = 0
       /\ Len(r.Conditions.RepositoryOwner) = 0
       /\ Len(r.Conditions.RepositoryVisibility) = 0
       /\ Len(r.Conditions.Ref) = 0
       /\ Len(r.Conditions.RefType) = 0
       /\ Len(r.Conditions.Workflow) = 0
       /\ Len(r.Conditions.EventName) = 0
       /\ Len(r.Conditions.Actor) = 0
       /\ Len(r.Conditions.Environment) = 0)

\* InvalidRules looking at the first rule only
InvalidRules_firstOnly(p) ==
    {i \in 1..Len(p.Rules) :
        i = 1 /\ (~ValidEffect(p.Rules[i]) \/ ~HasConditions(p.Rules[i]))}

\* lines 180-200: the rules at which the loop returns an error
InvalidRules(p) ==
    {i \in 1..Len(p.Rules) : ~ValidEffect(p.Rules[i]) \/ ~HasConditions(p.Rules[i])}

\* lines 171-204: Policy.Validate; the loop returns at the first invalid
\* rule, i being its index from 0
PolicyValidate(p) ==
    IF p.IsNil THEN NoPolicyError
    ELSE IF Len(p.Rules) = 0
    THEN PolicyError(<<"">>, "policy must have at least one rule")
    ELSE IF InvalidRules(p) = {} THEN NoPolicyError
    ELSE LET k == CHOOSE j \in InvalidRules(p) : \A m \in InvalidRules(p) : j <= m
             r == p.Rules[k]
             i == k - 1
         IN  IF ~ValidEffect(r)
             THEN PolicyError(<<r.Name>>, "effect must be 'allow' or 'deny'")
             ELSE PolicyError(IF r.Name = "" THEN RuneString(i) ELSE <<r.Name>>,
                              "rule must have at least one condition")

---------------------------------------------------------------------------
(* Inputs of the policy engine *)

NilPolicy == [IsNil |-> TRUE, Rules |-> <<>>, DefaultDeny |-> FALSE]
NoConditions == [a \in CondAttrs |-> <<>>]
NoRule == [Name |-> "", Conditions |-> NoConditions, Effect |-> ""]
NoResult == [Allowed |-> FALSE, MatchedRule |-> "", Reason |-> <<>>]

GitHubIssuer == "https://token.actions.githubusercontent.com"

\* claims of a token of the provider, every condition attribute set
BaseClaims ==
    [Issuer |-> GitHubIssuer, Audience |-> <<"aud1">>,
     Repository |-> <<"a">>, RepositoryOwner |-> <<"a">>,
     RepositoryVisibility |-> <<"a">>, Ref |-> <<"a">>, RefType |-> <<"a">>,
     Workflow |-> <<"a">>, EventName |-> <<"a">>, Actor |-> <<"a">>,
     Environment |-> <<"a">>]

\* the base claims with at most MaxChanged attributes absent or different
ClaimSets ==
    {[x \in DOMAIN BaseClaims |-> IF x \in DOMAIN f THEN f[x] ELSE BaseClaims[x]] :
        f \in UNION {[S -> {<<>>, <<"b">>}] :
                S \in {T \in SUBSET CondAttrs : Cardinality(T) <= MaxChanged}}}

\* pattern lists: a literal, *, **, the empty pattern, and two patterns of
\* which only the second matches "a"
PatLists ==
    {<< <<"a">> >>, << <<"*">> >>, << <<"*", "*">> >>, << <<>> >>,
     << <<"b">>, <<"a">> >>}

\* conditions with at most MaxActive active attributes, carrying one list
ConditionSets ==
    {[a \in CondAttrs |-> IF a \in S THEN L ELSE <<>>] :
        S \in {T \in SUBSET CondAttrs : Cardinality(T) <= MaxActive},
        L \in PatLists}

\* the rules the policies of Evaluate are made of
CatalogConditions ==
    {[NoConditions EXCEPT !.Repository = << <<"a">> >>],
     [NoConditions EXCEPT !.Actor = << <<"b">>, <<"a">> >>],
     [NoConditions EXCEPT !.Ref = << <<"a">> >>, !.Workflow = << <<"*">> >>]}
        \cup {[NoConditions EXCEPT !.Environment = L] : L \in PatLists}
CatalogRules ==
    {[Name |-> n, Conditions |-> cs, Effect |-> e] :
        n \in {"r1", "r2"}, cs \in CatalogConditions, e \in {EffectAllow, EffectDeny}}
CatalogClaims ==
    {BaseClaims,
     [BaseClaims EXCEPT !.Environment = <<>>],
     [BaseClaims EXCEPT !.Repository = <<"b">>, !.Environment = <<>>],
     [BaseClaims EXCEPT !.Repository = <<"b">>, !.Actor = <<"b">>,
                        !.Ref = <<"b">>, !.Environment = <<"b">>]}
\* rules of a policy that never went through Validate: the name is optional
\* (line 46) and Effect is a string type (line 4), so a rule built in code or
\* unmarshalled from JSON carries any name and any effect
UncheckedEffects == {EffectAllow, EffectDeny, "", "Allow", "permit"}
UncheckedRules ==
    {[Name |-> n, Conditions |-> cs, Effect |-> e] :
        n \in {"", "r1"},
        cs \in {[NoConditions EXCEPT !.Repository = << <<"a">> >>],
                [NoConditions EXCEPT !.Repository = << <<"b">> >>]},
        e \in UncheckedEffects}
Policies ==
    {[IsNil |-> FALSE, Rules |-> rs, DefaultDeny |-> d] :
        rs \in SeqsUpTo(CatalogRules, MaxRules) \cup SeqsUpTo(UncheckedRules, MaxRules),
        d \in BOOLEAN}
        \cup {NilPolicy}

\* the policies handed to Validate: rules with and without a name, with a
\* valid or another effect, with no condition or one
ValidateConditions ==
    {NoConditions, [NoConditions EXCEPT !.Environment = << <<>> >>]}
        \cup {[NoConditions EXCEPT ![a] = << <<"a">> >>] : a \in CondAttrs}
ValidateRules ==
    {[Name |-> n, Conditions |-> cs, Effect |-> e] :
        n \in {"", "r1"}, cs \in ValidateConditions,
        e \in {EffectAllow, EffectDeny, "permit"}}
ValidatePolicies ==
    {[IsNil |-> FALSE, Rules |-> rs, DefaultDeny |-> TRUE] :
        rs \in SeqsUpTo(ValidateRules, MaxRules)}
        \cup {NilPolicy}

---------------------------------------------------------------------------
(* Inputs of the matcher *)

Literals == SeqsUpTo(LitChars, MaxSeg)
Patterns ==
    SeqsUpTo(PatChars, MaxPat)
        \cup {P \o <<"/", "*", "*", "/">> \o S : P \in Literals, S \in Literals}
Values ==
    SeqsUpTo(ValChars, MaxVal)
        \cup {P \o <<"/">> \o S : P \in Literals, S \in Literals}

---------------------------------------------------------------------------
(* errors.go: the error categories *)

ErrInvalidToken == "ErrInvalidToken"
ErrTokenExpired == "ErrTokenExpired"
ErrInvalidSignature == "ErrInvalidSignature"
ErrInvalidAudience == "ErrInvalidAudience"
ErrInvalidIssuer == "ErrInvalidIssuer"
ErrAccessDenied == "ErrAccessDenied"
ErrJWKSFetch == "ErrJWKSFetch"
ErrKeyNotFound == "ErrKeyNotFound"
NoError == "nil"

---------------------------------------------------------------------------
(* claims.go *)

\* ClaimsValidate testing the issuer after the required attributes
ClaimsValidate_issuerLast(c) ==
    IF c.Repository = <<>> THEN ErrInvalidToken
    ELSE IF c.RepositoryOwner = <<>> THEN ErrInvalidToken
    ELSE IF c.Ref = <<>> THEN ErrInvalidToken
    ELSE IF c.Workflow = <<>> THEN ErrInvalidToken
    ELSE IF c.EventName = <<>> THEN ErrInvalidToken
    ELSE IF c.Actor = <<>> THEN ErrInvalidToken
    ELSE IF c.Issuer # GitHubIssuer THEN ErrInvalidIssuer
    ELSE NoError

\* lines 49-80: GitHubActionsClaims.Validate, the category of the error
ClaimsValidate(c) ==
    IF c.Issuer # GitHubIssuer THEN ErrInvalidIssuer
    ELSE IF c.Repository = <<>> THEN ErrInvalidToken
    ELSE IF c.RepositoryOwner = <<>> THEN ErrInvalidToken
    ELSE IF c.Ref = <<>> THEN ErrInvalidToken
    ELSE IF c.Workflow = <<>> THEN ErrInvalidToken
    ELSE IF c.EventName = <<>> THEN ErrInvalidToken
    ELSE IF c.Actor = <<>> THEN ErrInvalidToken
    ELSE NoError

---------------------------------------------------------------------------
(* jwks.go: key resolution, as one caller at a time sees it *)

\* the key identifiers the key-set endpoint serves
ServedKeys == {"k1"}
\* time.Time's zero value: older than any cache duration
ZeroTime == 0 - CacheDuration

\* the goroutines calling into the fetcher
Procs == {"g1", "g2"}
\* a goroutine outside Keyfunc and GetKey
IdleCall ==
    [pc |-> "idle", alg |-> "", kid |-> "", miss |-> FALSE, looked |-> 0,
     fetched |-> 0, newCache |-> {}, err |-> NoError, key |-> "", cause |-> "",
     seq |-> 0]
\* lines 60-65: the fetcher NewJWKSFetcher returns has written nothing
NoCommit == [keys |-> {}, at |-> ZeroTime, seq |-> 0]

\* IsSigningMethodRSA accepting every method
IsSigningMethodRSA_any(alg) == TRUE

\* line 171: token.Method is a *jwt.SigningMethodRSA
IsSigningMethodRSA(alg) == alg \in {"RS256", "RS384", "RS512"}

\* CacheHit without the test of the age
CacheHit_ignoreAge(kid, ca, at, t) == kid \in ca

\* a map without entries
EmptyMap == [k \in {} |-> 0]
\* m[k] = v
MapPut(m, k, v) == [x \in DOMAIN m \cup {k} |-> IF x = k THEN v ELSE m[x]]

\* the characters the n and e of a JWK are written with here: three of the
\* base64url alphabet, "+" of the standard alphabet only, and the padding
B64Chars == {"A", "Q", "-", "+", "="}

\* encoding/base64, URLEncoding: the value of a character, -1 outside the
\* alphabet
URLValue(c) ==
    CASE c = "A" -> 0
      [] c = "Q" -> 16
      [] c = "-" -> 62
      [] OTHER -> 0 - 1

\* DecodeOK accepting the padding character
DecodeOK_padded(s) ==
    /\ \A i \in 1..Len(s) : URLValue(s[i]) >= 0 \/ s[i] = "="
    /\ Len(s) % 4 # 1

\* lines 145 and 151: base64.RawURLEncoding.DecodeString returns no error:
\* every character is of the alphabet and the length leaves no lone
\* character
DecodeOK(s) ==
    /\ \A i \in 1..Len(s) : URLValue(s[i]) >= 0
    /\ Len(s) % 4 # 1

\* the characters of s as one number, six bits each
RECURSIVE SextetValue(_)
SextetValue(s) ==
    IF s = <<>> THEN 0
    ELSE SextetValue(SubSeq(s, 1, Len(s) - 1)) * 64 + URLValue(s[Len(s)])

\* lines 157-158: new(big.Int).SetBytes of the decoded bytes: the whole
\* bytes of the bits of s, the bits left over dropped
DecodedInt(s) ==
    LET bits == Len(s) * 6
        bytes == bits \div 8
    IN  SextetValue(s) \div (2 ^ (bits - 8 * bytes))

\* lines 143-165: jwkToPublicKey
jwkToPublicKey(jwk) ==
    IF ~DecodeOK(jwk.N) THEN [ok |-> FALSE, N |-> 0, E |-> 0]
    ELSE IF ~DecodeOK(jwk.E) THEN [ok |-> FALSE, N |-> 0, E |-> 0]
    ELSE [ok |-> TRUE, N |-> DecodedInt(jwk.N), E |-> DecodedInt(jwk.E)]

\* lines 118-131: the loop of refresh over jwks.Keys, newCache being m
RECURSIVE ConvertKeys(_, _)
ConvertKeys(keys, m) ==
    IF keys = <<>> THEN m
    ELSE LET jwk == Head(keys)
         IN  IF jwk.Kty # "RSA" THEN ConvertKeys(Tail(keys), m)
             ELSE IF ~jwkToPublicKey(jwk).ok THEN ConvertKeys(Tail(keys), m)
             ELSE ConvertKeys(Tail(keys),
                              MapPut(m, jwk.Kid, [N |-> jwkToPublicKey(jwk).N,
                                                  E |-> jwkToPublicKey(jwk).E]))

\* the responses refresh converts: the n of every spelling up to MaxB64
\* characters, an e that decodes, is padded or is one character long, both
\* key types, alone or next to a well-formed key of the same or another kid
B64Strings == SeqsUpTo(B64Chars, MaxB64)
WellFormedKey(kid) == [Kid |-> kid, Kty |-> "RSA", N |-> <<"Q", "Q">>, E |-> <<"A", "Q">>]
DrawnKeys ==
    {[Kid |-> kid, Kty |-> kty, N |-> n, E |-> e] :
        kid \in {"k1", "k2"}, kty \in {"RSA", "EC"}, n \in B64Strings,
        e \in {<<"A", "Q">>, <<"A", "=">>, <<"A">>}}
RefreshResponses ==
    {<<>>} \cup {<<j>> : j \in DrawnKeys}
        \cup {<<j, WellFormedKey(kid)>> : j \in DrawnKeys, kid \in {"k1", "k2"}}
        \cup {<<WellFormedKey(kid), j>> : j \in DrawnKeys, kid \in {"k1", "k2"}}

\* the runs of the verifier before any call
RunIds == {"run1", "run2"}
NoRuns == [r \in RunIds |->
             [cache |-> {}, cachedAt |-> 0 - CacheDuration, wall |-> 0, decisions |-> <<>>]]

\* lines 71-76: the cached key is present and the set is fresh
CacheHit(kid, ca, at, t) == kid \in ca /\ (t - at) < CacheDuration

\* lines 69-93: GetKey, with the outcome of the fetch refresh would issue;
\* the error category ("nil" for a key) and the cache it leaves
GetKey(kid, ca, at, t, fetchOK) ==
    IF CacheHit(kid, ca, at, t)
    THEN [Err |-> NoError, cache |-> ca, cachedAt |-> at]
    ELSE IF ~fetchOK
    THEN [Err |-> ErrJWKSFetch, cache |-> ca, cachedAt |-> at]
    ELSE [Err |-> IF kid \in ServedKeys THEN NoError ELSE ErrKeyNotFound,
          cache |-> ServedKeys, cachedAt |-> t]

\* lines 168-183: Keyfunc: the signing method, then the key identifier,
\* then the key
Keyfunc(tok, ca, at, t, fetchOK) ==
    IF ~IsSigningMethodRSA(tok.Alg)
    THEN [Err |-> ErrInvalidSignature, cache |-> ca, cachedAt |-> at]
    ELSE IF tok.Kid = ""
    THEN [Err |-> ErrInvalidToken, cache |-> ca, cachedAt |-> at]
    ELSE GetKey(tok.Kid, ca, at, t, fetchOK)

---------------------------------------------------------------------------
(* jwks.go: Keyfunc, GetKey and refresh, statement by statement, called by  *)
(* several goroutines                                                      *)

\* the token headers Keyfunc is called with: the method and the kid ("" for
\* a header without one)
CallAlgs == {"RS256", "HS256"}
CallKids == {"k1", "k2", ""}

\* bodies of a 200 response: the JWKs with their kid, their kty and whether
\* n and e decode
RSAKey(kid) == [Kid |-> kid, Kty |-> "RSA", N |-> <<"Q", "Q">>, E |-> <<"A", "Q">>]
Bodies ==
    {<<RSAKey("k1")>>,
     <<RSAKey("k1"), RSAKey("k2")>>,
     <<RSAKey("k1"), [RSAKey("k2") EXCEPT !.Kty = "EC"]>>,
     <<[RSAKey("k1") EXCEPT !.N = <<"Q", "=">>], RSAKey("k2")>>,
     <<>>}
\* lines 97-115: the ways refresh fails
FetchFailures == {"request", "transport", "status", "decode"}

\* lines 118-131: newCache, the keys of the body that are RSA and decode
UsableKeys(body) ==
    DOMAIN ConvertKeys(body, EmptyMap)

\* RLock granted while a goroutine holds Lock
RLockFree_noLock(m) == TRUE

\* lines 71 and 84: RLock is granted when no goroutine holds Lock
RLockFree(m) == m = "free"

\* RUnlock deferred to the return of GetKey
Readers_heldToReturn ==
    {p \in Procs : calls[p].pc \in {"lookup", "fetch", "write", "stamp", "rerlock",
                                    "relookup"}}

\* lines 71-73 and 84-86: the goroutines between RLock and RUnlock
Readers == {p \in Procs : calls[p].pc \in {"lookup", "relookup"}}

\* the call of goroutine p returns
Return(p, category, key) ==
    [calls[p] EXCEPT !.pc = "done", !.err = category, !.key = key, !.newCache = {},
                     !.seq = 0]

\* lines 168-182: Keyfunc up to the call of GetKey
CallKeyfunc(p) ==
    /\ calls[p].pc \in {"idle", "done"}
    /\ fetches < MaxFetches
    /\ \E alg \in CallAlgs, kid \in CallKids :
          LET c == [IdleCall EXCEPT !.alg = alg, !.kid = kid]
          IN  calls' = [calls EXCEPT ![p] =
                  IF ~IsSigningMethodRSA(alg)
                  THEN [c EXCEPT !.pc = "done", !.err = ErrInvalidSignature]
                  ELSE IF kid = ""
                  THEN [c EXCEPT !.pc = "done", !.err = ErrInvalidToken]
                  ELSE [c EXCEPT !.pc = "rlock"]]
    /\ UNCHANGED <<mu, lastCommit, fetches, cacheVars>>
    /\ UNCHANGED <<matchVars, claims, ruleVars, evalVars, verifyVars, validateVars>>
    /\ UNCHANGED <<refreshVars, claimsVars, clockVars, keyErr>>

\* lines 71 and 84: RLock, before the first and before the second lookup
RLock(p) ==
    /\ calls[p].pc \in {"rlock", "rerlock"}
    /\ RLockFree(mu)
    /\ calls' = [calls EXCEPT ![p].pc = IF calls[p].pc = "rlock" THEN "lookup"
                                        ELSE "relookup"]
    /\ UNCHANGED <<mu, lastCommit, fetches, cacheVars>>
    /\ UNCHANGED <<matchVars, claims, ruleVars, evalVars, verifyVars, validateVars>>
    /\ UNCHANGED <<refreshVars, claimsVars, clockVars, keyErr>>

\* lines 72-76: the lookup under RLock, RUnlock, and the return on a hit
Lookup(p) ==
    /\ calls[p].pc = "lookup"
    /\ calls' = [calls EXCEPT ![p] =
          IF CacheHit(calls[p].kid, cache, cachedAt, now)
          THEN [Return(p, NoError, calls[p].kid) EXCEPT !.looked = 1]
          ELSE [calls[p] EXCEPT !.pc = "fetch", !.miss = TRUE, !.looked = 1]]
    /\ UNCHANGED <<mu, lastCommit, fetches, cacheVars>>
    /\ UNCHANGED <<matchVars, claims, ruleVars, evalVars, verifyVars, validateVars>>
    /\ UNCHANGED <<refreshVars, claimsVars, clockVars, keyErr>>

\* Fetch dropping the cached set when the fetch fails
Fetch_clearOnFailure(p) ==
    /\ calls[p].pc = "fetch"
    /\ \/ \E c \in FetchFailures :
             /\ calls' = [calls EXCEPT ![p] =
                   [Return(p, ErrJWKSFetch, "") EXCEPT !.fetched = @ + 1, !.cause = c]]
             /\ fetches' = IF c = "request" THEN fetches ELSE fetches + 1
             /\ cache' = {}
       \/ \E b \in Bodies :
             /\ calls' = [calls EXCEPT ![p] =
                   [calls[p] EXCEPT !.pc = "write", !.fetched = @ + 1,
                                    !.newCache = UsableKeys(b),
                                    !.seq = fetches + 1]]
             /\ fetches' = fetches + 1
             /\ UNCHANGED cache
    /\ UNCHANGED <<mu, lastCommit, cachedAt, now>>
    /\ UNCHANGED <<matchVars, claims, ruleVars, evalVars, verifyVars, validateVars>>
    /\ UNCHANGED <<refreshVars, claimsVars, clockVars, keyErr>>

\* lines 79 and 97-131: refresh up to newCache; a failure returns from
\* GetKey (line 80)
Fetch(p) ==
    /\ calls[p].pc = "fetch"
    /\ \/ \E c \in FetchFailures :
             /\ calls' = [calls EXCEPT ![p] =
                   [Return(p, ErrJWKSFetch, "") EXCEPT !.fetched = @ + 1, !.cause = c]]
             /\ fetches' = IF c = "request" THEN fetches ELSE fetches + 1
       \/ \E b \in Bodies :
             /\ calls' = [calls EXCEPT ![p] =
                   [calls[p] EXCEPT !.pc = "write", !.fetched = @ + 1,
                                    !.newCache = UsableKeys(b),
                                    !.seq = fetches + 1]]
             /\ fetches' = fetches + 1
    /\ UNCHANGED <<mu, lastCommit, cacheVars>>
    /\ UNCHANGED <<matchVars, claims, ruleVars, evalVars, verifyVars, validateVars>>
    /\ UNCHANGED <<refreshVars, claimsVars, clockVars, keyErr>>

\* lines 134-135: Lock, granted when no goroutine holds the lock for
\* reading or writing, and the new map is assigned
LockAndSwap(p) ==
    /\ calls[p].pc = "write"
    /\ mu = "free"
    /\ Readers = {}
    /\ mu' = p
    /\ cache' = calls[p].newCache
    /\ calls' = [calls EXCEPT ![p].pc = "stamp"]
    /\ UNCHANGED <<cachedAt, now, lastCommit, fetches>>
    /\ UNCHANGED <<matchVars, claims, ruleVars, evalVars, verifyVars, validateVars>>
    /\ UNCHANGED <<refreshVars, claimsVars, clockVars, keyErr>>

\* lines 136-139: the time is assigned, Unlock, refresh returns nil; the
\* call remembers the set its refresh built until it returns
StampAndUnlock(p) ==
    /\ calls[p].pc = "stamp"
    /\ mu = p
    /\ cachedAt' = now
    /\ mu' = "free"
    /\ lastCommit' = [keys |-> calls[p].newCache, at |-> now, seq |-> calls[p].seq]
    /\ calls' = [calls EXCEPT ![p].pc = "rerlock"]
    /\ UNCHANGED <<cache, now, fetches>>
    /\ UNCHANGED <<matchVars, claims, ruleVars, evalVars, verifyVars, validateVars>>
    /\ UNCHANGED <<refreshVars, claimsVars, clockVars, keyErr>>

\* Relookup calling refresh again when the key is still not there
Relookup_retry(p) ==
    /\ calls[p].pc = "relookup"
    /\ calls' = [calls EXCEPT ![p] =
          IF calls[p].kid \in cache
          THEN [Return(p, NoError, calls[p].kid) EXCEPT !.looked = 2]
          ELSE [calls[p] EXCEPT !.pc = "fetch", !.looked = 2]]
    /\ UNCHANGED <<mu, lastCommit, fetches, cacheVars>>
    /\ UNCHANGED <<matchVars, claims, ruleVars, evalVars, verifyVars, validateVars>>
    /\ UNCHANGED <<refreshVars, claimsVars, clockVars, keyErr>>

\* lines 85-92: the second lookup under RLock, RUnlock, and the return
Relookup(p) ==
    /\ calls[p].pc = "relookup"
    /\ calls' = [calls EXCEPT ![p] =
          IF calls[p].kid \in cache
          THEN [Return(p, NoError, calls[p].kid) EXCEPT !.looked = 2]
          ELSE [Return(p, ErrKeyNotFound, "") EXCEPT !.looked = 2]]
    /\ UNCHANGED <<mu, lastCommit, fetches, cacheVars>>
    /\ UNCHANGED <<matchVars, claims, ruleVars, evalVars, verifyVars, validateVars>>
    /\ UNCHANGED <<refreshVars, claimsVars, clockVars, keyErr>>

---------------------------------------------------------------------------
(* Verifier.Verify and Verifier.parseToken *)

\* jwt.ParseWithClaims as parseToken calls it: the token's segments, the
\* key function, the signature, the registered time claims and, when the
\* library validates a ClaimsValidator (libValidates), the claims' own
\* Validate.  The result is the error the library returns: "nil",
\* "expired", "early" or "other".
ParseWithClaims(tok, ca, at, t, fetchOK, libValidates) ==
    IF tok.Malformed
    THEN [Err |-> "other", KeyErr |-> NoError, cache |-> ca, cachedAt |-> at]
    ELSE LET k == Keyfunc(tok, ca, at, t, fetchOK)
         IN  [KeyErr |-> k.Err,
              Err |-> IF k.Err # NoError THEN "other"
                      ELSE IF ~tok.SigOK THEN "other"
                      ELSE IF tok.Time = "expired" THEN "expired"
                      ELSE IF tok.Time = "early" THEN "early"
                      ELSE IF libValidates /\ ClaimsValidate(tok.Claims) # NoError
                           THEN "other"
                      ELSE NoError,
              cache |-> k.cache, cachedAt |-> k.cachedAt]

\* lines 108-121: the category parseToken returns for the library's error
ParseTokenError(libErr) ==
    IF libErr = "expired" THEN ErrTokenExpired
    ELSE IF libErr = "early" THEN ErrInvalidToken
    ELSE IF libErr = "other" THEN ErrInvalidToken
    ELSE NoError

\* AudienceValid taking the audience "*" of a token for any audience
AudienceValid_wildcard(v, c) ==
    \E k \in 1..Len(c.Audience) : c.Audience[k] = v.audience \/ c.Audience[k] = "*"

\* lines 76-89: the audience check of a verifier with an audience
AudienceValid(v, c) == \E k \in 1..Len(c.Audience) : c.Audience[k] = v.audience

NoToken ==
    [Malformed |-> FALSE, Alg |-> "", Kid |-> "", SigOK |-> FALSE, Time |-> "",
     Claims |-> BaseClaims]
NoOutcome == [Kind |-> "none", Err |-> NoError, PolicyResult |-> NoResult]
ErrorOutcome(category) == [Kind |-> "error", Err |-> category, PolicyResult |-> NoResult]
Step(name, ok) == [name |-> name, ok |-> ok]

\* lines 8-46: the attributes Validate requires, and optional ones
RequiredAttrs == {"Repository", "RepositoryOwner", "Ref", "Workflow", "EventName", "Actor"}
OptionalAttrs ==
    {"Environment", "TriggeringActor", "EnterpriseID", "EnterpriseSlug",
     "RepositoryVisibility", "RefType"}
\* the claims handed to Validate: the issuer of the provider, the same with
\* a trailing slash, another and none; every attribute present or absent
ValidatedClaims ==
    {[x \in {"Issuer", "Audience"} \cup RequiredAttrs \cup OptionalAttrs |->
        IF x = "Issuer" THEN iss
        ELSE IF x = "Audience" THEN <<"aud1">>
        ELSE IF x \in present THEN <<"a">> ELSE <<>>] :
        iss \in {GitHubIssuer, "https://token.actions.githubusercontent.com/",
                 "https://invalid.example.com", ""},
        present \in SUBSET (RequiredAttrs \cup OptionalAttrs)}

\* a token signed by the provider, and the tokens off it in one respect
GoodHeader == [Malformed |-> FALSE, Alg |-> "RS256", Kid |-> "k1", SigOK |-> TRUE,
               Time |-> "ok"]
Headers ==
    {GoodHeader,
     [GoodHeader EXCEPT !.Malformed = TRUE],
     [GoodHeader EXCEPT !.Alg = "HS256"],
     [GoodHeader EXCEPT !.Kid = ""],
     [GoodHeader EXCEPT !.Kid = "k2"],
     [GoodHeader EXCEPT !.SigOK = FALSE],
     [GoodHeader EXCEPT !.Time = "expired"],
     [GoodHeader EXCEPT !.Time = "early"]}
TokenClaims ==
    {BaseClaims,
     [BaseClaims EXCEPT !.Issuer = "https://invalid.example.com"],
     [BaseClaims EXCEPT !.Repository = <<>>],
     [BaseClaims EXCEPT !.Repository = <<"b">>],
     [BaseClaims EXCEPT !.Audience = <<>>],
     [BaseClaims EXCEPT !.Audience = <<"aud2">>],
     [BaseClaims EXCEPT !.Audience = <<"aud2", "aud1">>],
     [BaseClaims EXCEPT !.Audience = <<"*">>],
     [BaseClaims EXCEPT !.Audience = <<"aud">>]}
Tokens ==
    {[Malformed |-> h.Malformed, Alg |-> h.Alg, Kid |-> h.Kid, SigOK |-> h.SigOK,
      Time |-> h.Time, Claims |-> c] : h \in Headers, c \in TokenClaims}

\* the verifiers New builds here: without a policy, or with a valid one
AllowRepositoryA ==
    [IsNil |-> FALSE, DefaultDeny |-> TRUE,
     Rules |-> << [Name |-> "allow-a", Effect |-> EffectAllow,
                   Conditions |-> [NoConditions EXCEPT !.Repository = << <<"a">> >>]] >>]
DenyRepositoryA ==
    [IsNil |-> FALSE, DefaultDeny |-> FALSE,
     Rules |-> << [Name |-> "deny-a", Effect |-> EffectDeny,
                   Conditions |-> [NoConditions EXCEPT !.Repository = << <<"a">> >>]] >>]
Verifiers ==
    {[policy |-> p, audience |-> a] :
        p \in {NilPolicy, AllowRepositoryA, DenyRepositoryA}, a \in {"", "aud1"}}
NoVerifier == [policy |-> NilPolicy, audience |-> ""]

\* the policies handed to New with WithPolicy: none, valid ones, and invalid
\* ones; the last two would allow every token if they were evaluated
AllowEverything ==
    [Name |-> "all", Effect |-> EffectAllow, Conditions |-> NoConditions]
OptionPolicies ==
    {NilPolicy, AllowRepositoryA, DenyRepositoryA,
     [IsNil |-> FALSE, DefaultDeny |-> TRUE, Rules |-> <<>>],
     [IsNil |-> FALSE, DefaultDeny |-> FALSE, Rules |-> <<>>],
     [AllowRepositoryA EXCEPT !.Rules[1].Effect = "permit"],
     [AllowRepositoryA EXCEPT !.Rules = <<AllowEverything>>],
     [AllowRepositoryA EXCEPT !.Rules = Append(@, AllowEverything)]}

\* New that keeps the verifier whatever Validate returns
New_ignoreValidate ==
    /\ vpc = "new"
    /\ \E a \in {"", "aud1"} : verifier' = [policy |-> policy, audience |-> a]
    /\ validateDone' = ~policy.IsNil
    /\ validateResult' = IF policy.IsNil THEN NoPolicyError ELSE PolicyValidate(policy)
    /\ vpc' = "idle"
    /\ UNCHANGED <<policy, evalDone, evalResult, token, steps, outcome, cacheVars,
                   matchVars, claims, ruleVars, fetcherVars>>
    /\ UNCHANGED <<refreshVars, claimsVars, clockVars, keyErr>>

\* part_001 lines 33-60: New with the options WithPolicy and WithAudience;
\* VerifyToken (lines 127-134) is New followed by Verify
New ==
    /\ vpc = "new"
    /\ validateDone' = ~policy.IsNil
    /\ validateResult' = IF policy.IsNil THEN NoPolicyError ELSE PolicyValidate(policy)
    /\ IF ~policy.IsNil /\ ~PolicyValidate(policy).IsNil
       THEN vpc' = "failed" /\ verifier' = NoVerifier
       ELSE /\ vpc' = "idle"
            /\ \E a \in {"", "aud1"} : verifier' = [policy |-> policy, audience |-> a]
    /\ UNCHANGED <<policy, evalDone, evalResult, token, steps, outcome, cacheVars,
                   matchVars, claims, ruleVars, fetcherVars>>
    /\ UNCHANGED <<refreshVars, claimsVars, clockVars, keyErr>>

\* Verify on the nil *Verifier a failed New returned: parseToken reads
\* v.jwksFetcher (line 107) and the call panics
VerifyNilVerifier ==
    /\ vpc = "failed"
    /\ \E t \in Tokens : token' = t
    /\ vpc' = "panicked"
    /\ outcome' = [Kind |-> "panic", Err |-> NoError, PolicyResult |-> NoResult]
    /\ UNCHANGED <<verifier, steps, cacheVars, matchVars, claims, ruleVars, evalVars,
                   validateVars, fetcherVars>>
    /\ UNCHANGED <<refreshVars, claimsVars, clockVars, keyErr>>

\* part_001 line 63: Verify is called with a token
StartVerify ==
    /\ vpc \in {"idle", "done"}
    /\ \E t \in Tokens : token' = t
    /\ vpc' = "parse"
    /\ steps' = <<>>
    /\ outcome' = NoOutcome
    /\ keyErr' = NoError
    /\ UNCHANGED <<validateVars, fetcherVars>>
    /\ UNCHANGED <<verifier, cacheVars, matchVars, claims, ruleVars, evalVars>>
    /\ UNCHANGED <<refreshVars, claimsVars, clockVars>>

\* lines 65-68, with parseToken (lines 104-124) and the key source
ParseToken ==
    /\ vpc = "parse"
    /\ \E fetchOK \in BOOLEAN, libValidates \in BOOLEAN :
          LET r == ParseWithClaims(token, cache, cachedAt, now, fetchOK, libValidates)
              err == ParseTokenError(r.Err)
          IN  /\ cache' = r.cache
              /\ cachedAt' = r.cachedAt
              /\ keyErr' = r.KeyErr
              /\ steps' = Append(steps, Step("parse", err = NoError))
              /\ IF err # NoError
                 THEN vpc' = "done" /\ outcome' = ErrorOutcome(err)
                 ELSE vpc' = "validate" /\ UNCHANGED outcome
    /\ UNCHANGED <<validateVars, fetcherVars>>
    /\ UNCHANGED <<verifier, token, now, matchVars, claims, ruleVars, evalVars>>
    /\ UNCHANGED <<refreshVars, claimsVars, clockVars>>

\* lines 70-73
ValidateClaims ==
    /\ vpc = "validate"
    /\ LET err == ClaimsValidate(token.Claims)
       IN  /\ steps' = Append(steps, Step("validate", err = NoError))
           /\ IF err # NoError
              THEN vpc' = "done" /\ outcome' = ErrorOutcome(err)
              ELSE vpc' = "audience" /\ UNCHANGED outcome
    /\ UNCHANGED <<validateVars, fetcherVars>>
    /\ UNCHANGED <<verifier, token, cacheVars, matchVars, claims, ruleVars, evalVars>>
    /\ UNCHANGED <<refreshVars, claimsVars, clockVars, keyErr>>

\* CheckAudience without the return on a mismatch
CheckAudience_noReturn ==
    /\ vpc = "audience"
    /\ IF verifier.audience # ""
       THEN steps' = Append(steps, Step("audience", AudienceValid(verifier, token.Claims)))
       ELSE UNCHANGED steps
    /\ vpc' = "policy"
    /\ UNCHANGED <<validateVars, fetcherVars>>
    /\ UNCHANGED <<outcome, verifier, token, cacheVars, matchVars, claims, ruleVars,
                   evalVars>>
    /\ UNCHANGED <<refreshVars, claimsVars, clockVars, keyErr>>

\* lines 75-89
CheckAudience ==
    /\ vpc = "audience"
    /\ IF verifier.audience # ""
       THEN /\ steps' = Append(steps, Step("audience", AudienceValid(verifier, token.Claims)))
            /\ IF ~AudienceValid(verifier, token.Claims)
               THEN vpc' = "done" /\ outcome' = ErrorOutcome(ErrInvalidAudience)
               ELSE vpc' = "policy" /\ UNCHANGED outcome
       ELSE vpc' = "policy" /\ UNCHANGED <<steps, outcome>>
    /\ UNCHANGED <<validateVars, fetcherVars>>
    /\ UNCHANGED <<verifier, token, cacheVars, matchVars, claims, ruleVars, evalVars>>
    /\ UNCHANGED <<refreshVars, claimsVars, clockVars, keyErr>>

\* lines 91-100
EvaluatePolicy ==
    /\ vpc = "policy"
    /\ LET policyResult == Evaluate(verifier.policy, token.Claims)
       IN  /\ steps' = Append(steps, Step("policy", policyResult.Allowed))
           /\ outcome' = IF ~policyResult.Allowed
                         THEN ErrorOutcome(ErrAccessDenied)
                         ELSE [Kind |-> "result", Err |-> NoError,
                               PolicyResult |-> policyResult]
    /\ vpc' = "done"
    /\ UNCHANGED <<validateVars, fetcherVars>>
    /\ UNCHANGED <<verifier, token, cacheVars, matchVars, claims, ruleVars, evalVars>>
    /\ UNCHANGED <<refreshVars, claimsVars, clockVars, keyErr>>

\* time passes
Tick ==
    /\ now < MaxTime
    /\ now' = now + 1
    /\ UNCHANGED <<validateVars, fetcherVars>>
    /\ UNCHANGED <<cache, cachedAt, verifyVars, matchVars, claims, ruleVars, evalVars>>
    /\ UNCHANGED <<refreshVars, claimsVars, clockVars, keyErr>>

---------------------------------------------------------------------------
(* Specifications: one per component, the other components at rest.  Each *)
(* draws the arguments of one call in its initial state and applies the    *)
(* function in its action.                                                 *)

MatchInit ==
    /\ pattern \in Patterns
    /\ value \in Values
    /\ matchDone = FALSE
    /\ matchResult = FALSE
    /\ claims = BaseClaims
    /\ rule = NoRule /\ ruleDone = FALSE /\ ruleResult = FALSE
    /\ policy = NilPolicy /\ evalDone = FALSE /\ evalResult = NoResult
    /\ verifier = NoVerifier /\ token = NoToken /\ vpc = "idle" /\ steps = <<>>
    /\ outcome = NoOutcome
    /\ cache = {} /\ cachedAt = ZeroTime /\ now = 0
    /\ validateDone = FALSE /\ validateResult = NoPolicyError
    /\ calls = [p \in Procs |-> IdleCall] /\ mu = "free"
    /\ lastCommit = NoCommit /\ fetches = 0
    /\ jwks = <<>> /\ refreshDone = FALSE /\ installed = EmptyMap
    /\ claimsDone = FALSE /\ claimsErr = NoError
    /\ runs = NoRuns /\ injected = 0
    /\ keyErr = NoError

CallMatch ==
    /\ ~matchDone
    /\ matchDone' = TRUE
    /\ matchResult' = Match(pattern, value)
    /\ UNCHANGED <<validateVars, fetcherVars>>
    /\ UNCHANGED <<pattern, value, claims, ruleVars, evalVars, verifyVars, cacheVars>>
    /\ UNCHANGED <<refreshVars, claimsVars, clockVars, keyErr>>

SpecMatch == MatchInit /\ [][CallMatch]_vars

RuleInit ==
    /\ rule \in {[Name |-> "r1", Conditions |-> cs, Effect |-> EffectAllow] :
                    cs \in ConditionSets}
    /\ claims \in ClaimSets
    /\ ruleDone = FALSE
    /\ ruleResult = FALSE
    /\ pattern = <<>> /\ value = <<>> /\ matchDone = FALSE /\ matchResult = FALSE
    /\ policy = NilPolicy /\ evalDone = FALSE /\ evalResult = NoResult
    /\ verifier = NoVerifier /\ token = NoToken /\ vpc = "idle" /\ steps = <<>>
    /\ outcome = NoOutcome
    /\ cache = {} /\ cachedAt = ZeroTime /\ now = 0
    /\ validateDone = FALSE /\ validateResult = NoPolicyError
    /\ calls = [p \in Procs |-> IdleCall] /\ mu = "free"
    /\ lastCommit = NoCommit /\ fetches = 0
    /\ jwks = <<>> /\ refreshDone = FALSE /\ installed = EmptyMap
    /\ claimsDone = FALSE /\ claimsErr = NoError
    /\ runs = NoRuns /\ injected = 0
    /\ keyErr = NoError

CallMatchesRule ==
    /\ ~ruleDone
    /\ ruleDone' = TRUE
    /\ ruleResult' = matchesRule(rule, claims)
    /\ UNCHANGED <<validateVars, fetcherVars>>
    /\ UNCHANGED <<rule, claims, matchVars, evalVars, verifyVars, cacheVars>>
    /\ UNCHANGED <<refreshVars, claimsVars, clockVars, keyErr>>

SpecRule == RuleInit /\ [][CallMatchesRule]_vars

EvalInit ==
    /\ policy \in Policies
    /\ claims \in CatalogClaims
    /\ evalDone = FALSE
    /\ evalResult = NoResult
    /\ pattern = <<>> /\ value = <<>> /\ matchDone = FALSE /\ matchResult = FALSE
    /\ rule = NoRule /\ ruleDone = FALSE /\ ruleResult = FALSE
    /\ verifier = NoVerifier /\ token = NoToken /\ vpc = "idle" /\ steps = <<>>
    /\ outcome = NoOutcome
    /\ cache = {} /\ cachedAt = ZeroTime /\ now = 0
    /\ validateDone = FALSE /\ validateResult = NoPolicyError
    /\ calls = [p \in Procs |-> IdleCall] /\ mu = "free"
    /\ lastCommit = NoCommit /\ fetches = 0
    /\ jwks = <<>> /\ refreshDone = FALSE /\ installed = EmptyMap
    /\ claimsDone = FALSE /\ claimsErr = NoError
    /\ runs = NoRuns /\ injected = 0
    /\ keyErr = NoError

CallEvaluate ==
    /\ ~evalDone
    /\ evalDone' = TRUE
    /\ evalResult' = Evaluate(policy, claims)
    /\ UNCHANGED <<validateVars, fetcherVars>>
    /\ UNCHANGED <<policy, claims, matchVars, ruleVars, verifyVars, cacheVars>>
    /\ UNCHANGED <<refreshVars, claimsVars, clockVars, keyErr>>

SpecPolicy == EvalInit /\ [][CallEvaluate]_vars

ValidateInit ==
    /\ policy \in ValidatePolicies
    /\ validateDone = FALSE /\ validateResult = NoPolicyError
    /\ claims = BaseClaims
    /\ pattern = <<>> /\ value = <<>> /\ matchDone = FALSE /\ matchResult = FALSE
    /\ rule = NoRule /\ ruleDone = FALSE /\ ruleResult = FALSE
    /\ evalDone = FALSE /\ evalResult = NoResult
    /\ verifier = NoVerifier /\ token = NoToken /\ vpc = "idle" /\ steps = <<>>
    /\ outcome = NoOutcome
    /\ cache = {} /\ cachedAt = ZeroTime /\ now = 0
    /\ calls = [p \in Procs |-> IdleCall] /\ mu = "free"
    /\ lastCommit = NoCommit /\ fetches = 0
    /\ jwks = <<>> /\ refreshDone = FALSE /\ installed = EmptyMap
    /\ claimsDone = FALSE /\ claimsErr = NoError
    /\ runs = NoRuns /\ injected = 0
    /\ keyErr = NoError

CallValidate ==
    /\ ~validateDone
    /\ validateDone' = TRUE
    /\ validateResult' = PolicyValidate(policy)
    /\ UNCHANGED <<policy, evalDone, evalResult, claims, matchVars, ruleVars, verifyVars,
                   cacheVars, fetcherVars>>
    /\ UNCHANGED <<refreshVars, claimsVars, clockVars, keyErr>>

SpecValidate == ValidateInit /\ [][CallValidate]_vars

VerifyInit ==
    /\ verifier \in Verifiers
    /\ token = NoToken /\ vpc = "idle" /\ steps = <<>> /\ outcome = NoOutcome
    /\ cache = {} /\ cachedAt = ZeroTime /\ now = 0
    /\ validateDone = FALSE /\ validateResult = NoPolicyError
    /\ calls = [p \in Procs |-> IdleCall] /\ mu = "free"
    /\ lastCommit = NoCommit /\ fetches = 0
    /\ claims = BaseClaims
    /\ pattern = <<>> /\ value = <<>> /\ matchDone = FALSE /\ matchResult = FALSE
    /\ rule = NoRule /\ ruleDone = FALSE /\ ruleResult = FALSE
    /\ policy = NilPolicy /\ evalDone = FALSE /\ evalResult = NoResult
    /\ jwks = <<>> /\ refreshDone = FALSE /\ installed = EmptyMap
    /\ claimsDone = FALSE /\ claimsErr = NoError
    /\ runs = NoRuns /\ injected = 0
    /\ keyErr = NoError

VerifyNext ==
    \/ StartVerify
    \/ ParseToken
    \/ ValidateClaims
    \/ CheckAudience
    \/ EvaluatePolicy
    \/ Tick

SpecVerify == VerifyInit /\ [][VerifyNext]_vars

FetcherInit ==
    /\ calls = [p \in Procs |-> IdleCall] /\ mu = "free"
    /\ lastCommit = NoCommit /\ fetches = 0
    /\ cache = {} /\ cachedAt = ZeroTime /\ now = 0
    /\ claims = BaseClaims
    /\ pattern = <<>> /\ value = <<>> /\ matchDone = FALSE /\ matchResult = FALSE
    /\ rule = NoRule /\ ruleDone = FALSE /\ ruleResult = FALSE
    /\ policy = NilPolicy /\ evalDone = FALSE /\ evalResult = NoResult
    /\ verifier = NoVerifier /\ token = NoToken /\ vpc = "idle" /\ steps = <<>>
    /\ outcome = NoOutcome
    /\ validateDone = FALSE /\ validateResult = NoPolicyError
    /\ jwks = <<>> /\ refreshDone = FALSE /\ installed = EmptyMap
    /\ claimsDone = FALSE /\ claimsErr = NoError
    /\ runs = NoRuns /\ injected = 0
    /\ keyErr = NoError

FetcherNext ==
    \/ \E p \in Procs : CallKeyfunc(p)
    \/ \E p \in Procs : RLock(p)
    \/ \E p \in Procs : Lookup(p)
    \/ \E p \in Procs : Fetch(p)
    \/ \E p \in Procs : LockAndSwap(p)
    \/ \E p \in Procs : StampAndUnlock(p)
    \/ \E p \in Procs : Relookup(p)
    \/ Tick

SpecFetcher == FetcherInit /\ [][FetcherNext]_vars

\* a step of the GetKey call of goroutine p
GetKeyStep(p) ==
    \/ RLock(p)
    \/ Lookup(p)
    \/ Fetch(p)
    \/ LockAndSwap(p)
    \/ StampAndUnlock(p)
    \/ Relookup(p)

\* the calls while the clock stands still: the age of the set only decides
\* between hit and miss at the first lookup, and a miss is also that of a
\* key the set does not hold
CallsNext ==
    \/ \E p \in Procs : CallKeyfunc(p)
    \/ \E p \in Procs : GetKeyStep(p)

\* the scheduling of the calls: the Go scheduler runs every runnable
\* goroutine and the request of refresh returns (the client has a timeout,
\* line 63), so a step that stays possible is taken; sync.RWMutex grants
\* Lock to a goroutine that can get the lock again and again (a blocked
\* Lock keeps new readers out until it is served), and RLock likewise
SpecFetcherFair ==
    /\ FetcherInit
    /\ [][CallsNext]_vars
    /\ \A p \in Procs : SF_vars(GetKeyStep(p))

RefreshInit ==
    /\ jwks \in RefreshResponses
    /\ refreshDone = FALSE /\ installed = EmptyMap
    /\ calls = [p \in Procs |-> IdleCall] /\ mu = "free"
    /\ lastCommit = NoCommit /\ fetches = 0
    /\ cache = {} /\ cachedAt = ZeroTime /\ now = 0
    /\ claims = BaseClaims
    /\ pattern = <<>> /\ value = <<>> /\ matchDone = FALSE /\ matchResult = FALSE
    /\ rule = NoRule /\ ruleDone = FALSE /\ ruleResult = FALSE
    /\ policy = NilPolicy /\ evalDone = FALSE /\ evalResult = NoResult
    /\ verifier = NoVerifier /\ token = NoToken /\ vpc = "idle" /\ steps = <<>>
    /\ outcome = NoOutcome
    /\ validateDone = FALSE /\ validateResult = NoPolicyError
    /\ claimsDone = FALSE /\ claimsErr = NoError
    /\ runs = NoRuns /\ injected = 0
    /\ keyErr = NoError

\* jwks.go lines 117-131: refresh builds newCache from the decoded response
ConvertResponse ==
    /\ ~refreshDone
    /\ refreshDone' = TRUE
    /\ installed' = ConvertKeys(jwks, EmptyMap)
    /\ UNCHANGED <<jwks, matchVars, claims, ruleVars, evalVars, verifyVars, cacheVars,
                   validateVars, fetcherVars, claimsVars, clockVars, keyErr>>

SpecRefresh == RefreshInit /\ [][ConvertResponse]_vars

ClockInit ==
    /\ runs = NoRuns /\ injected = 0
    /\ jwks = <<>> /\ refreshDone = FALSE /\ installed = EmptyMap
    /\ calls = [p \in Procs |-> IdleCall] /\ mu = "free"
    /\ lastCommit = NoCommit /\ fetches = 0
    /\ cache = {} /\ cachedAt = ZeroTime /\ now = 0
    /\ claims = BaseClaims
    /\ pattern = <<>> /\ value = <<>> /\ matchDone = FALSE /\ matchResult = FALSE
    /\ rule = NoRule /\ ruleDone = FALSE /\ ruleResult = FALSE
    /\ policy = NilPolicy /\ evalDone = FALSE /\ evalResult = NoResult
    /\ verifier = NoVerifier /\ token = NoToken /\ vpc = "idle" /\ steps = <<>>
    /\ outcome = NoOutcome
    /\ validateDone = FALSE /\ validateResult = NoPolicyError
    /\ claimsDone = FALSE /\ claimsErr = NoError
    /\ keyErr = NoError

\* the wall clock of one run advances
TickWall(r) ==
    /\ runs[r].wall < MaxTime
    /\ runs' = [runs EXCEPT ![r].wall = @ + 1]
    /\ UNCHANGED <<injected, matchVars, claims, ruleVars, evalVars, verifyVars, cacheVars,
                   validateVars, fetcherVars, refreshVars, claimsVars, keyErr>>

\* part_000 lines 414-416: the Clock given with WithClock returns a later
\* time, the same in both runs
TickInjected ==
    /\ injected < MaxTime
    /\ injected' = injected + 1
    /\ UNCHANGED <<runs, matchVars, claims, ruleVars, evalVars, verifyVars, cacheVars,
                   validateVars, fetcherVars, refreshVars, claimsVars, keyErr>>

\* both runs call GetKey for the same kid and get the same answer of the
\* endpoint; New (part_001 line 54) hands the fetcher no clock, and GetKey
\* and refresh read the time with time.Since and time.Now (jwks.go lines 72
\* and 136), the wall clock of the run
ResolveInBothRuns ==
    /\ \A r \in RunIds : Len(runs[r].decisions) < MaxResolves
    /\ \E kid \in {"k1", "k2"}, fetchOK \in BOOLEAN :
          runs' = [r \in RunIds |->
                     LET g == GetKey(kid, runs[r].cache, runs[r].cachedAt, runs[r].wall,
                                     fetchOK)
                         hit == CacheHit(kid, runs[r].cache, runs[r].cachedAt, runs[r].wall)
                     IN  [runs[r] EXCEPT
                            !.cache = g.cache, !.cachedAt = g.cachedAt,
                            !.decisions = Append(@, IF hit THEN "hit" ELSE "refresh")]]
    /\ UNCHANGED <<injected, matchVars, claims, ruleVars, evalVars, verifyVars, cacheVars,
                   validateVars, fetcherVars, refreshVars, claimsVars, keyErr>>

ClockNext ==
    \/ \E r \in RunIds : TickWall(r)
    \/ TickInjected
    \/ ResolveInBothRuns

SpecClock == ClockInit /\ [][ClockNext]_vars

ClaimsInit ==
    /\ claims \in ValidatedClaims
    /\ claimsDone = FALSE /\ claimsErr = NoError
    /\ runs = NoRuns /\ injected = 0
    /\ jwks = <<>> /\ refreshDone = FALSE /\ installed = EmptyMap
    /\ calls = [p \in Procs |-> IdleCall] /\ mu = "free"
    /\ lastCommit = NoCommit /\ fetches = 0
    /\ cache = {} /\ cachedAt = ZeroTime /\ now = 0
    /\ pattern = <<>> /\ value = <<>> /\ matchDone = FALSE /\ matchResult = FALSE
    /\ rule = NoRule /\ ruleDone = FALSE /\ ruleResult = FALSE
    /\ policy = NilPolicy /\ evalDone = FALSE /\ evalResult = NoResult
    /\ verifier = NoVerifier /\ token = NoToken /\ vpc = "idle" /\ steps = <<>>
    /\ outcome = NoOutcome
    /\ validateDone = FALSE /\ validateResult = NoPolicyError
    /\ keyErr = NoError

\* claims.go lines 49-80
CallClaimsValidate ==
    /\ ~claimsDone
    /\ claimsDone' = TRUE
    /\ claimsErr' = ClaimsValidate(claims)
    /\ UNCHANGED <<claims, matchVars, ruleVars, evalVars, verifyVars, cacheVars,
                   validateVars, fetcherVars, refreshVars, clockVars, keyErr>>

SpecClaims == ClaimsInit /\ [][CallClaimsValidate]_vars

NewInit ==
    /\ policy \in OptionPolicies
    /\ verifier = NoVerifier /\ vpc = "new"
    /\ token = NoToken /\ steps = <<>> /\ outcome = NoOutcome
    /\ validateDone = FALSE /\ validateResult = NoPolicyError
    /\ cache = {} /\ cachedAt = ZeroTime /\ now = 0
    /\ claims = BaseClaims
    /\ pattern = <<>> /\ value = <<>> /\ matchDone = FALSE /\ matchResult = FALSE
    /\ rule = NoRule /\ ruleDone = FALSE /\ ruleResult = FALSE
    /\ evalDone = FALSE /\ evalResult = NoResult
    /\ calls = [p \in Procs |-> IdleCall] /\ mu = "free"
    /\ lastCommit = NoCommit /\ fetches = 0
    /\ jwks = <<>> /\ refreshDone = FALSE /\ installed = EmptyMap
    /\ claimsDone = FALSE /\ claimsErr = NoError
    /\ runs = NoRuns /\ injected = 0
    /\ keyErr = NoError

NewNext ==
    \/ New
    \/ VerifyNilVerifier
    \/ StartVerify
    \/ ParseToken
    \/ ValidateClaims
    \/ CheckAudience
    \/ EvaluatePolicy
    \/ Tick

SpecNew == NewInit /\ [][NewNext]_vars

---------------------------------------------------------------------------
(* Properties of Verify *)

\* the steps of a call of verifier v, in the order of the code
StepOrder(v) ==
    IF v.audience # "" THEN <<"parse", "validate", "audience", "policy">>
    ELSE <<"parse", "validate", "policy">>
TokenWellSigned(tok) ==
    /\ ~tok.Malformed /\ tok.Alg = "RS256" /\ tok.Kid \in ServedKeys
    /\ tok.SigOK /\ tok.Time = "ok"

\* C1: Verify runs parse, claim validation, the audience check (if
\* configured) and policy evaluation in this order and stops at the first
\* step that fails; it returns a result only when every step passed and the
\* decision is allow, and a deny decision is the access-denied error.
C1_VerifyOrder ==
    /\ Len(steps) <= Len(StepOrder(verifier))
    /\ \A i \in 1..Len(steps) : steps[i].name = StepOrder(verifier)[i]
    /\ \A i \in 1..(Len(steps) - 1) : steps[i].ok
    /\ (steps # <<>> /\ ~steps[Len(steps)].ok) =>
            (vpc = "done" /\ outcome.Kind = "error")
    /\ (steps # <<>> /\ ~steps[Len(steps)].ok /\ steps[Len(steps)].name = "policy") =>
            (outcome = ErrorOutcome(ErrAccessDenied))
    /\ outcome.Kind = "result" =>
            /\ vpc = "done"
            /\ Len(steps) = Len(StepOrder(verifier))
            /\ \A i \in 1..Len(steps) : steps[i].ok
            /\ TokenWellSigned(token)
            /\ ClaimsValidate(token.Claims) = NoError
            /\ (verifier.audience # "" => AudienceValid(verifier, token.Claims))
            /\ outcome.PolicyResult = Evaluate(verifier.policy, token.Claims)
            /\ outcome.PolicyResult.Allowed

\* a valid token that the policy denies: every step ran, the last failed
C1_Witness ==
    /\ vpc = "done"
    /\ verifier.audience = "aud1"
    /\ TokenWellSigned(token)
    /\ Len(steps) = Len(StepOrder(verifier))
    /\ steps[Len(steps)] = Step("policy", FALSE)
    /\ outcome = ErrorOutcome(ErrAccessDenied)

\* the steps before policy evaluation all ran and passed
PassedUpToPolicy ==
    /\ Len(steps) >= Len(StepOrder(verifier)) - 1
    /\ \A i \in 1..(Len(StepOrder(verifier)) - 1) : steps[i].ok

\* C11: with a nil policy Evaluate allows every claim set with the reason
\* "no policy configured", and a verifier built without a policy returns a
\* result for every token that passed parsing, claim validation and the
\* audience check.
C11_NilPolicyAllows ==
    /\ \A c \in ClaimSets \cup TokenClaims :
          Evaluate(NilPolicy, c) =
              [Allowed |-> TRUE, MatchedRule |-> "", Reason |-> <<"no policy configured">>]
    /\ (verifier.policy.IsNil /\ vpc = "done" /\ PassedUpToPolicy) =>
          /\ outcome.Kind = "result"
          /\ outcome.Err = NoError
          /\ outcome.PolicyResult =
                [Allowed |-> TRUE, MatchedRule |-> "", Reason |-> <<"no policy configured">>]
    /\ verifier.policy.IsNil => outcome.Err # ErrAccessDenied

\* a verifier without a policy, with an audience, accepted a token of a
\* repository the catalog policies do not allow
C11_Witness ==
    /\ verifier.policy.IsNil /\ verifier.audience = "aud1"
    /\ vpc = "done" /\ PassedUpToPolicy
    /\ token.Claims.Repository = <<"b">>
    /\ outcome.Kind = "result"

\* the audience list of the token holds the expected audience itself
HasExactAudience ==
    \E k \in 1..Len(token.Claims.Audience) : token.Claims.Audience[k] = verifier.audience

\* C15: with an expected audience, a token that passed parsing and claim
\* validation and whose audience list holds no string equal to it is
\* rejected with the audience-mismatch category and the policy is not
\* evaluated; without an expected audience no audience step runs and the
\* call goes from claim validation to the policy.
C15_AudienceExact ==
    /\ (verifier.audience # "" /\ Len(steps) >= 3) =>
          /\ steps[3].name = "audience"
          /\ steps[3].ok <=> HasExactAudience
          /\ ~HasExactAudience =>
                /\ Len(steps) = 3
                /\ vpc = "done"
                /\ outcome = ErrorOutcome(ErrInvalidAudience)
    /\ (verifier.audience # "" /\ vpc = "done" /\ Len(steps) >= 2
            /\ steps[1].ok /\ steps[2].ok /\ ~HasExactAudience) =>
          outcome = ErrorOutcome(ErrInvalidAudience)
    /\ verifier.audience = "" =>
          /\ \A i \in 1..Len(steps) : steps[i].name # "audience"
          /\ outcome.Err # ErrInvalidAudience
          /\ (vpc = "done" /\ Len(steps) >= 2 /\ steps[1].ok /\ steps[2].ok) =>
                (Len(steps) = 3 /\ steps[3].name = "policy")

\* a well-signed token with the audience "*" was rejected for its audience
\* by a verifier whose policy was not consulted
C15_Witness ==
    /\ verifier.audience = "aud1" /\ ~verifier.policy.IsNil
    /\ TokenWellSigned(token)
    /\ token.Claims.Audience = <<"*">>
    /\ vpc = "done"
    /\ steps = <<Step("parse", TRUE), Step("validate", TRUE), Step("audience", FALSE)>>
    /\ outcome = ErrorOutcome(ErrInvalidAudience)

\* C22: the error Verify returns carries the category of what failed: a
\* failed key-set fetch the fetch-failed category, a kid that is not in the
\* key set key-not-found, an untrusted signing method or a signature that
\* does not verify invalid-signature, none of them another category.
C22_CategoryPreserved ==
    (vpc = "done" /\ Len(steps) = 1 /\ ~steps[1].ok) =>
        /\ keyErr = ErrJWKSFetch => outcome.Err = ErrJWKSFetch
        /\ keyErr = ErrKeyNotFound => outcome.Err = ErrKeyNotFound
        /\ keyErr = ErrInvalidSignature => outcome.Err = ErrInvalidSignature
        /\ (keyErr = NoError /\ ~token.Malformed /\ ~token.SigOK) =>
              outcome.Err = ErrInvalidSignature

---------------------------------------------------------------------------
(* Properties of the policy engine *)

Active(r, a) == Len(r.Conditions[a]) > 0
SomePatternMatches(r, c, a) ==
    \E k \in 1..Len(r.Conditions[a]) : Match(r.Conditions[a][k], c[a])
\* the rules of p before the first one that matches c do not match it
IsFirstMatch(p, c, i) ==
    /\ matchesRule(p.Rules[i], c)
    /\ \A j \in 1..(i - 1) : ~matchesRule(p.Rules[j], c)
WithoutEnvironmentRules(p) ==
    [p EXCEPT !.Rules = SelectSeq(p.Rules, LAMBDA r : ~Active(r, "Environment"))]

\* C2: Evaluate is first-match-wins: the first rule in declaration order
\* that matches decides allowed and matched-rule-name, and the rules after
\* it never change the result.
C2_FirstMatchWins ==
    (evalDone /\ ~policy.IsNil) =>
        \A i \in 1..Len(policy.Rules) :
            IsFirstMatch(policy, claims, i) =>
                /\ evalResult.Allowed = (policy.Rules[i].Effect = "allow")
                /\ evalResult.MatchedRule = policy.Rules[i].Name
                /\ evalResult =
                     Evaluate([policy EXCEPT !.Rules = SubSeq(policy.Rules, 1, i)],
                              claims)

\* an earlier matching deny, a later matching allow: deny, the earlier name
C2_Witness ==
    /\ evalDone
    /\ Len(policy.Rules) = 2
    /\ policy.Rules[1].Effect = "deny" /\ policy.Rules[1].Name = "r1"
    /\ policy.Rules[2].Effect = "allow" /\ policy.Rules[2].Name = "r2"
    /\ matchesRule(policy.Rules[1], claims)
    /\ matchesRule(policy.Rules[2], claims)
    /\ evalResult.Allowed = FALSE
    /\ evalResult.MatchedRule = "r1"

\* C3: when no rule of a non-nil policy matches, the result is driven by the
\* default-deny flag alone, with its reason and an empty matched-rule-name.
C3_DefaultWhenNoMatch ==
    (/\ evalDone
     /\ ~policy.IsNil
     /\ \A i \in 1..Len(policy.Rules) : ~matchesRule(policy.Rules[i], claims))
        => /\ evalResult.Allowed = ~policy.DefaultDeny
           /\ evalResult.MatchedRule = ""
           /\ evalResult.Reason =
                IF policy.DefaultDeny THEN <<"default deny policy">>
                ELSE <<"default allow (no matching rules)">>

C3_Witness ==
    /\ evalDone
    /\ Len(policy.Rules) = 1
    /\ policy.DefaultDeny
    /\ Active(policy.Rules[1], "Repository")
    /\ claims.Repository = <<"b">>
    /\ evalResult.Allowed = FALSE
    /\ evalResult.Reason = <<"default deny policy">>

\* C4 as stated: a rule matches iff every condition with a non-empty pattern
\* list has a pattern matching the claim value.
C4_Original ==
    ruleDone =>
        (ruleResult =
            \A a \in CondAttrs : Active(rule, a) => SomePatternMatches(rule, claims, a))

\* C4 amended: a rule matches iff every condition with a non-empty pattern
\* list has a pattern matching the claim value and, when the environment
\* condition is active, the environment claim is not empty.
C4_RuleMatches ==
    ruleDone =>
        (ruleResult =
            (/\ \A a \in CondAttrs :
                    Active(rule, a) => SomePatternMatches(rule, claims, a)
             /\ Active(rule, "Environment") => claims.Environment # <<>>))

\* two active conditions, one of them not matching
C4_Witness ==
    /\ ruleDone
    /\ rule.Conditions.Repository = << <<"a">> >>
    /\ rule.Conditions.Ref = << <<"a">> >>
    /\ claims.Repository = <<"a">>
    /\ claims.Ref = <<"b">>
    /\ ruleResult = FALSE

\* C5: an absent attribute never satisfies a condition on it: a rule with an
\* active condition on an attribute whose claim value is empty does not
\* match, whatever the patterns are.  Stated of the claims that pass
\* structural validation, the ones Verify hands to the policy.
C5_AbsentNeverMatches ==
    (/\ ruleDone
     /\ ClaimsValidate(claims) = NoError
     /\ \E a \in CondAttrs : Active(rule, a) /\ claims[a] = <<>>)
        => (ruleResult = FALSE)

\* C6: a rule with an active environment condition never matches claims
\* whose environment is empty: the result is that of the policy without
\* such rules, and denied when they are all its rules and it is default-deny.
C6_EmptyEnvironment ==
    (evalDone /\ ~policy.IsNil /\ claims.Environment = <<>>) =>
        /\ evalResult = Evaluate(WithoutEnvironmentRules(policy), claims)
        /\ (policy.DefaultDeny /\ WithoutEnvironmentRules(policy).Rules = <<>>)
                => (evalResult.Allowed = FALSE)

C6_Witness ==
    /\ evalDone
    /\ policy.DefaultDeny
    /\ Len(policy.Rules) = 1
    /\ policy.Rules[1].Conditions.Environment = << <<"*", "*">> >>
    /\ policy.Rules[1].Effect = "allow"
    /\ claims.Environment = <<>>
    /\ evalResult.Allowed = FALSE

---------------------------------------------------------------------------
(* Properties of the matcher *)

NoStar(s) == \A i \in 1..Len(s) : s[i] # "*"
NoDoubleStar(p) == \A i \in 1..(Len(p) - 1) : ~(p[i] = "*" /\ p[i + 1] = "*")
StartsWith(v, a) == Len(a) <= Len(v) /\ SubSeq(v, 1, Len(a)) = a
\* the position of the first * of p (Len(p) + 1 if there is none)
FirstStar(p) == IF NoStar(p) THEN Len(p) + 1 ELSE IndexByte(p, "*") + 1
\* p = A ** R with A literal
HasLiteralThenDoubleStar(p) ==
    FirstStar(p) < Len(p) /\ p[FirstStar(p) + 1] = "*"
PrefixA(p) == SubSeq(p, 1, FirstStar(p) - 1)
RemainderR(p) == SubSeq(p, FirstStar(p) + 2, Len(p))
StripSlash(r) == IF r # <<>> /\ Head(r) = "/" THEN Tail(r) ELSE r

RECURSIVE Glob(_, _)
\* v is p with every literal kept and every * replaced by zero or more
\* characters other than /
Glob(p, v) ==
    IF p = <<>> THEN v = <<>>
    ELSE IF Head(p) = "*"
         THEN \E k \in 0..Len(v) :
                 /\ \A j \in 1..k : v[j] # "/"
                 /\ Glob(Tail(p), SubSeq(v, k + 1, Len(v)))
         ELSE v # <<>> /\ Head(v) = Head(p) /\ Glob(Tail(p), Tail(v))

\* C7: for a pattern without **, Match is true iff the value is the pattern
\* with each * replaced by zero or more characters other than /.
C7_SingleStar ==
    (matchDone /\ NoDoubleStar(pattern)) => (matchResult = Glob(pattern, value))

C7_Witness ==
    /\ matchDone
    /\ pattern = <<"a", "*", "a">>
    /\ value = <<"a", "/", "a">>
    /\ matchResult = FALSE

\* C8 as stated: Match(A ** R, v) iff v starts with A and R matches some
\* suffix of the rest of v, R being the whole text after the **.
C8_Original ==
    (matchDone /\ HasLiteralThenDoubleStar(pattern)) =>
        (matchResult =
            (/\ StartsWith(value, PrefixA(pattern))
             /\ \E i \in Len(PrefixA(pattern))..Len(value) :
                    Match(RemainderR(pattern), SliceFrom(value, i))))

\* C8 amended: Match(A ** R, v) iff v starts with A and R', which is R
\* without one leading / if it has one, matches some suffix of the rest of v.
C8_DoubleStarRemainder ==
    (matchDone /\ HasLiteralThenDoubleStar(pattern)) =>
        (matchResult =
            (/\ StartsWith(value, PrefixA(pattern))
             /\ \E i \in Len(PrefixA(pattern))..Len(value) :
                    Match(StripSlash(RemainderR(pattern)), SliceFrom(value, i))))

C8_Witness ==
    /\ matchDone
    /\ pattern = <<"a", "*", "*", "/", "a">>
    /\ value = <<"a", "a">>
    /\ matchResult = TRUE

\* C9: for literal P and S, Match(P/**/S, P/S) is true: the ** between two
\* separators may match zero path segments.
C9_ZeroSegments ==
    (/\ matchDone
     /\ \E P \in Literals, S \in Literals :
           /\ pattern = P \o <<"/", "*", "*", "/">> \o S
           /\ value = P \o <<"/">> \o S)
        => (matchResult = TRUE)

C9_Witness ==
    /\ matchDone
    /\ pattern = <<"a", "/", "*", "*", "/", "a">>
    /\ value = <<"a", "/", "a">>
    /\ matchResult = TRUE

\* C10: a final ** matches the whole remainder: for a literal L,
\* Match(L **, v) is true iff v starts with L (every v when L is empty).
C10_FinalDoubleStar ==
    (/\ matchDone
     /\ HasLiteralThenDoubleStar(pattern)
     /\ RemainderR(pattern) = <<>>)
        => (matchResult = StartsWith(value, PrefixA(pattern)))

C10_Witness ==
    /\ matchDone
    /\ pattern = <<"a", "*", "*">>
    /\ value = <<"a", "/", "b">>
    /\ matchResult = TRUE

---------------------------------------------------------------------------
(* Properties of Policy.Validate *)

\* C12: Validate returns nil iff the policy is nil, or it has a rule and
\* every rule has the effect allow or deny and a condition with a non-empty
\* pattern list; an empty rule list, a rule with another effect and a rule
\* without an active condition are errors at whatever index the rule stands.
C12_ValidateAccepts ==
    validateDone =>
        (validateResult.IsNil <=>
            \/ policy.IsNil
            \/ /\ Len(policy.Rules) > 0
               /\ \A i \in 1..Len(policy.Rules) :
                     /\ policy.Rules[i].Effect \in {"allow", "deny"}
                     /\ \E a \in CondAttrs : Len(policy.Rules[i].Conditions[a]) > 0)

\* a policy whose first rule is valid and whose last rule has no condition
\* was rejected
C12_Witness ==
    /\ validateDone
    /\ ~policy.IsNil /\ Len(policy.Rules) = 2
    /\ ValidEffect(policy.Rules[1]) /\ HasConditions(policy.Rules[1])
    /\ ValidEffect(policy.Rules[2]) /\ policy.Rules[2].Conditions = NoConditions
    /\ ~validateResult.IsNil
    /\ validateResult.Reason = "rule must have at least one condition"

---------------------------------------------------------------------------
(* Properties of New *)

\* what Validate is specified to accept
PolicyIsValid(p) ==
    \/ p.IsNil
    \/ /\ Len(p.Rules) > 0
       /\ \A i \in 1..Len(p.Rules) :
             /\ p.Rules[i].Effect \in {"allow", "deny"}
             /\ \E a \in CondAttrs : Len(p.Rules[i].Conditions[a]) > 0

\* C13: when the policy given to New fails Validate, New returns that error
\* and no verifier, and no step of Verify ever runs; every verifier that
\* exists, and every policy a token is evaluated against, is a valid one.
C13_NewFailsClosed ==
    /\ (vpc # "new" /\ ~PolicyIsValid(policy)) =>
          /\ vpc \in {"failed", "panicked"}
          /\ verifier = NoVerifier
          /\ validateDone /\ ~validateResult.IsNil
          /\ validateResult = PolicyValidate(policy)
          /\ steps = <<>>
          /\ outcome.Kind \in {"none", "panic"}
    /\ vpc \notin {"new", "failed", "panicked"} =>
          (verifier.policy = policy /\ PolicyIsValid(policy))
    /\ steps # <<>> => PolicyIsValid(verifier.policy)

\* New refused a policy whose second rule, without conditions, would have
\* allowed every token, and the nil verifier was then used
C13_Witness ==
    /\ Len(policy.Rules) = 2 /\ policy.Rules[2] = AllowEverything
    /\ vpc = "panicked"
    /\ verifier = NoVerifier
    /\ ~validateResult.IsNil
    /\ steps = <<>>

---------------------------------------------------------------------------
(* Properties of the key function and the key cache *)

\* the call of goroutine p carries a token signed with another method than
\* the RSA ones
ForeignMethod(p) ==
    calls[p].pc # "idle" /\ calls[p].alg \notin {"RS256", "RS384", "RS512"}

\* C14: a token whose signing method is not an RSA one is rejected by the
\* key function with the invalid-signature category before any key
\* resolution: its call has returned without a cache lookup and without a
\* fetch, and this also when the header carries no kid (the method is
\* checked before the kid).
C14_MethodBeforeKey ==
    \A p \in Procs :
        ForeignMethod(p) =>
            /\ calls[p].pc = "done"
            /\ calls[p].err = ErrInvalidSignature
            /\ calls[p].key = ""
            /\ calls[p].looked = 0
            /\ calls[p].fetched = 0
            /\ ~calls[p].miss

\* two tokens signed with HS256, one without a kid and one naming a key that
\* is not cached, were rejected while the cache was empty
C14_Witness ==
    /\ calls["g1"].pc = "done" /\ calls["g1"].alg = "HS256" /\ calls["g1"].kid = ""
    /\ calls["g1"].err = ErrInvalidSignature
    /\ calls["g2"].pc = "done" /\ calls["g2"].alg = "HS256" /\ calls["g2"].kid = "k1"
    /\ calls["g2"].err = ErrInvalidSignature
    /\ cache = {} /\ fetches = 0

\* the lookup of GetKey by goroutine p: a fetch follows iff the key is not
\* in the set or the set is as old as the cache duration or older
C16_LookupStep(p) ==
    (calls[p].pc = "lookup" /\ calls'[p].pc # "lookup") =>
        IF calls[p].kid \notin cache \/ now - cachedAt >= CacheDuration
        THEN calls'[p].pc = "fetch" /\ calls'[p].key = ""
        ELSE /\ calls'[p].pc = "done"
             /\ calls'[p].err = NoError
             /\ calls'[p].key = calls[p].kid
             /\ calls'[p].fetched = 0
             /\ fetches' = fetches

\* a goroutine standing before refresh calls it next
C16_FetchStep(p) ==
    (calls[p].pc = "fetch" /\ calls'[p].pc # "fetch") =>
        /\ calls'[p].fetched = 1
        /\ calls'[p].cause # "request" => fetches' = fetches + 1

\* a request is sent only by a GetKey whose lookup missed, and the time of
\* the cache changes only when a refresh that got its response stamps it
C16_OnlyInGetKey ==
    /\ fetches' # fetches =>
          /\ fetches' = fetches + 1
          /\ \E p \in Procs : calls[p].pc = "fetch" /\ calls[p].miss
                                /\ calls'[p].fetched = 1
    /\ (\E p \in Procs : calls[p].pc = "stamp" /\ calls'[p].pc # "stamp") =>
          cachedAt' = now
    /\ cachedAt' # cachedAt =>
          \E p \in Procs : calls[p].pc = "stamp" /\ calls[p].fetched = 1

\* C16: GetKey fetches iff, at its lookup, the key is absent from the set
\* or the age of the set (one time for the whole set) has reached the cache
\* duration; on a hit it returns the cached key without a fetch.  The first
\* GetKey on the empty cache fetches, a GetKey on an expired set fetches
\* again and its refresh, having got a response, stamps the current time.
\* No request is sent outside GetKey.
C16_FetchIffMiss ==
    /\ [](\A p \in Procs :
            /\ calls[p].fetched <= 1
            /\ (calls[p].fetched = 1 \/ calls[p].pc \in {"fetch", "write", "stamp", "rerlock", "relookup"})
                  => calls[p].miss
            /\ (calls[p].pc = "lookup" /\ cache = {}) => ~CacheHit(calls[p].kid, cache, cachedAt, now))
    /\ [][/\ \A p \in Procs : C16_LookupStep(p) /\ C16_FetchStep(p)
          /\ C16_OnlyInGetKey]_vars

\* the set was fetched, expired and was fetched again by a GetKey for k1,
\* which stamped a later time; another GetKey for k1 then hit the cache
C16_Witness ==
    /\ fetches = 2
    /\ cachedAt >= CacheDuration /\ now - cachedAt < CacheDuration
    /\ calls["g1"].pc = "done" /\ calls["g1"].kid = "k1" /\ calls["g1"].fetched = 1
    /\ calls["g1"].key = "k1"
    /\ calls["g2"].pc = "done" /\ calls["g2"].kid = "k1" /\ calls["g2"].looked = 1
    /\ calls["g2"].fetched = 0 /\ calls["g2"].key = "k1"

\* the second lookup of GetKey by goroutine p ends the call without another
\* refresh
C17_RelookupStep(p) ==
    (calls[p].pc = "relookup" /\ calls'[p].pc # "relookup") =>
        /\ calls'[p].pc = "done"
        /\ calls'[p].fetched = calls[p].fetched
        /\ fetches' = fetches
        /\ IF calls[p].kid \in cache
           THEN calls'[p].err = NoError /\ calls'[p].key = calls[p].kid
           ELSE calls'[p].err = ErrKeyNotFound /\ calls'[p].key = ""

\* a call that has returned does nothing more: its goroutine can only start
\* another call
C17_Terminal(p) ==
    (calls[p].pc = "done" /\ calls'[p] # calls[p]) =>
        (calls'[p].pc \in {"done", "rlock"} /\ calls'[p].fetched = 0
            /\ calls'[p].looked = 0)

\* C17: a GetKey call refreshes at most once; when the key is still absent
\* after its one successful refresh it returns the key-not-found category
\* without another fetch, and that ends the call.
C17_OneRefresh ==
    /\ [](\A p \in Procs :
            /\ calls[p].fetched <= 1
            /\ calls[p].looked <= 2
            /\ (calls[p].pc = "done" /\ calls[p].err = ErrKeyNotFound) =>
                  (calls[p].fetched = 1 /\ calls[p].looked = 2 /\ calls[p].key = ""))
    /\ [][\A p \in Procs : C17_RelookupStep(p) /\ C17_Terminal(p)]_vars

\* a GetKey for k2 fetched a set that holds k1 only and returned key not
\* found after that one request
C17_Witness ==
    /\ calls["g1"].pc = "done" /\ calls["g1"].kid = "k2"
    /\ calls["g1"].err = ErrKeyNotFound
    /\ calls["g1"].fetched = 1
    /\ cache = {"k1"} /\ fetches = 1

\* the refresh of goroutine p fails: the call returns the fetch-failed
\* category and the fetcher is as it was
C18_FailedRefreshStep(p) ==
    (calls[p].pc = "fetch" /\ calls'[p].pc = "done") =>
        /\ calls'[p].err = ErrJWKSFetch
        /\ calls'[p].cause \in {"request", "transport", "status", "decode"}
        /\ calls'[p].key = ""
        /\ cache' = cache
        /\ cachedAt' = cachedAt
        /\ lastCommit' = lastCommit
        /\ mu' = mu

\* C18: every failed refresh (the request cannot be built, a transport
\* error, a status other than 200, a body that does not decode) is the one
\* fetch-failed category, and the cached key set and its time after the
\* failed refresh are those before it.
C18_FailedRefresh ==
    /\ [](\A p \in Procs :
            /\ calls[p].cause # "" <=> (calls[p].pc = "done" /\ calls[p].err = ErrJWKSFetch)
            /\ calls[p].err = ErrJWKSFetch => (calls[p].fetched = 1 /\ calls[p].miss))
    /\ [][\A p \in Procs : C18_FailedRefreshStep(p)]_vars

\* a refresh failed on a body that does not decode while the cache held a
\* set that had expired; the set and its time are those of the last write
C18_Witness ==
    /\ calls["g1"].pc = "done" /\ calls["g1"].err = ErrJWKSFetch
    /\ calls["g1"].cause = "decode" /\ calls["g1"].kid = "k1"
    /\ cache = {"k1"}
    /\ now - cachedAt >= CacheDuration
    /\ lastCommit.keys = cache /\ lastCommit.at = cachedAt /\ cachedAt >= 0

\* C19: after a refresh failure the keys of the previously cached set remain
\* usable: a GetKey whose refresh fails, for a key that is in the cached
\* set, returns that key, also when the set has expired.  (The other
\* goroutines being idle, the set is the one the call found at its lookup.)
C19_StaleKeysUsable ==
    [][\A p \in Procs :
          (/\ calls[p].pc = "fetch" /\ calls'[p].pc = "done"
           /\ calls[p].kid \in cache
           /\ \A q \in Procs \ {p} : calls[q].pc = "idle")
          => (calls'[p].err = NoError /\ calls'[p].key = calls[p].kid)]_vars

\* the set and the time a reader finds are those NewJWKSFetcher left, or
\* the whole set of usable keys of one response with the time the refresh
\* that fetched it stamped
WholeSetOfOneRefresh ==
    \/ cache = {} /\ cachedAt = ZeroTime /\ lastCommit = NoCommit
    \/ /\ lastCommit.keys = cache /\ lastCommit.at = cachedAt
       /\ \E b \in Bodies : cache = UsableKeys(b)
       /\ cachedAt \in 0..now

\* goroutine p reads the cache under RLock in this step
C20_ReaderStep(p) ==
    calls[p].pc \in {"lookup", "relookup"} /\ calls'[p].pc # calls[p].pc

\* C20: the key set is replaced as a whole and together with its time:
\* whenever the lock is not held for writing, and at every read of a
\* goroutine under any interleaving of concurrent GetKey calls, the cache is
\* the initial empty one or the complete set of usable keys of one
\* successful response with the time stamped by that same refresh, never a
\* new set with the old time or a part of a set.
C20_WholesaleReplace ==
    /\ [](mu = "free" => WholeSetOfOneRefresh)
    /\ [][\A p \in Procs : C20_ReaderStep(p) => WholeSetOfOneRefresh]_vars

\* one goroutine has written the set of its response after time 0 and
\* returned a key while the other still holds the smaller set of its own
\* response, fetched but not yet written
C20_Witness ==
    /\ mu = "free"
    /\ cache = {"k1", "k2"} /\ cachedAt >= 1
    /\ calls["g2"].pc = "done" /\ calls["g2"].fetched = 1 /\ calls["g2"].key # ""
    /\ calls["g1"].pc = "write" /\ calls["g1"].newCache = {"k1"}

---------------------------------------------------------------------------
(* Properties of refresh's conversion of the response *)

\* unpadded base64url of the characters drawn: only characters of the URL
\* alphabet, and not one character more than a multiple of four
IsRawBase64URL(s) ==
    /\ \A i \in 1..Len(s) : s[i] \in {"A", "Q", "-"}
    /\ Len(s) % 4 # 1

\* a well-formed key record
WellFormedRecord(j) == j.Kty = "RSA" /\ IsRawBase64URL(j.N) /\ IsRawBase64URL(j.E)

\* C21: refresh installs exactly the entries of the response whose key type
\* is RSA and whose n and e decode from unpadded base64url: the kids
\* installed are those of the well-formed entries, whatever other entries
\* the response holds and wherever they stand, and every installed key is
\* the decoded n and e of a well-formed entry with that kid (the last one).
C21_InstallsWellFormed ==
    refreshDone =>
        /\ DOMAIN installed = {jwks[i].Kid : i \in {k \in 1..Len(jwks) : WellFormedRecord(jwks[k])}}
        /\ \A kid \in DOMAIN installed :
              \E i \in 1..Len(jwks) :
                 /\ jwks[i].Kid = kid /\ WellFormedRecord(jwks[i])
                 /\ \A k \in (i + 1)..Len(jwks) :
                       ~(jwks[k].Kid = kid /\ WellFormedRecord(jwks[k]))
                 /\ installed[kid] = [N |-> DecodedInt(jwks[i].N), E |-> DecodedInt(jwks[i].E)]

\* a response whose first entry has a padded n and whose second entry is
\* well-formed: the second alone was installed
C21_Witness ==
    /\ refreshDone
    /\ Len(jwks) = 2
    /\ jwks[1].Kty = "RSA" /\ jwks[1].Kid = "k1" /\ jwks[1].N = <<"Q", "=">>
    /\ jwks[2] = WellFormedKey("k2")
    /\ DOMAIN installed = {"k2"}
    /\ installed["k2"] = [N |-> 65, E |-> 1]

---------------------------------------------------------------------------
(* Properties of the clock of the key cache *)

\* C23: with a clock configured on the verifier the key cache takes its
\* times from that clock: two runs that get the same readings of the
\* injected clock and make the same GetKey calls take the same hit and
\* refresh decisions and stamp the same times, whatever their wall clocks
\* show.
C23_ClockInjected ==
    /\ runs["run1"].decisions = runs["run2"].decisions
    /\ runs["run1"].cache # {} => runs["run1"].cachedAt <= injected
    /\ runs["run2"].cache # {} => runs["run2"].cachedAt <= injected

---------------------------------------------------------------------------
(* Properties of GitHubActionsClaims.Validate *)

\* the claims with every optional attribute absent
WithoutOptional(c) == [x \in DOMAIN c |-> IF x \in OptionalAttrs THEN <<>> ELSE c[x]]

\* C24: claim validation succeeds iff the issuer is the provider's and
\* repository, repository owner, ref, workflow, event name and actor are
\* non-empty; a wrong issuer is the invalid-issuer category also when
\* required attributes are missing, a missing required attribute under the
\* right issuer is the invalid-token category, and the optional attributes
\* do not change the outcome.
C24_ClaimsValidate ==
    claimsDone =>
        /\ claimsErr = NoError <=>
              /\ claims.Issuer = "https://token.actions.githubusercontent.com"
              /\ \A x \in {"Repository", "RepositoryOwner", "Ref", "Workflow",
                          "EventName", "Actor"} : claims[x] # <<>>
        /\ claims.Issuer # "https://token.actions.githubusercontent.com" =>
              claimsErr = ErrInvalidIssuer
        /\ (/\ claims.Issuer = "https://token.actions.githubusercontent.com"
            /\ \E x \in {"Repository", "RepositoryOwner", "Ref", "Workflow",
                         "EventName", "Actor"} : claims[x] = <<>>) =>
              claimsErr = ErrInvalidToken
        /\ claimsErr = ClaimsValidate(WithoutOptional(claims))

\* claims of another issuer without a repository, with an environment, were
\* rejected for the issuer
C24_Witness ==
    /\ claimsDone
    /\ claims.Issuer = "https://invalid.example.com"
    /\ claims.Repository = <<>> /\ claims.Actor = <<>>
    /\ claims.Environment # <<>>
    /\ claimsErr = ErrInvalidIssuer

---------------------------------------------------------------------------
(* Properties of the errors of Policy.Validate *)

\* the first rule, in declaration order, with an effect other than allow
\* and deny or without a condition (0 if there is none)
FirstInvalidRule(p) ==
    LET bad == {i \in 1..Len(p.Rules) :
                   \/ p.Rules[i].Effect \notin {"allow", "deny"}
                   \/ \A a \in CondAttrs : Len(p.Rules[i].Conditions[a]) = 0}
    IN  IF bad = {} THEN 0 ELSE CHOOSE i \in bad : \A j \in bad : i <= j

\* C25: the error of a rule that fails validation names the rule: it
\* carries the name of the first invalid rule or, when that rule has no
\* name, the identifier of its position (the one Validate builds from the
\* index), for a bad effect as for a rule without conditions.
C25_IdentifiesRule ==
    (validateDone /\ ~policy.IsNil /\ FirstInvalidRule(policy) # 0) =>
        LET i == FirstInvalidRule(policy)
        IN  /\ ~validateResult.IsNil
            /\ validateResult.Rule =
                  IF policy.Rules[i].Name # "" THEN <<policy.Rules[i].Name>>
                  ELSE RuneString(i - 1)

---------------------------------------------------------------------------
(* Properties of the result of a matching rule *)

\* C26: whenever a rule decides the result, the result carries the name of
\* that rule as matched-rule-name and the reason "rule: " followed by that
\* name, whatever the rule; it is thereby none of the results of the
\* default.
C26_RuleResultNamesRule ==
    (evalDone /\ ~policy.IsNil) =>
        \A i \in 1..Len(policy.Rules) :
            IsFirstMatch(policy, claims, i) =>
                /\ evalResult.MatchedRule = policy.Rules[i].Name
                /\ evalResult.Reason = <<"rule: ", policy.Rules[i].Name>>
                /\ evalResult.Reason \notin
                      {<<"default deny policy">>,
                       <<"default allow (no matching rules)">>}

\* C27: Evaluate fails closed on the effect: a matching rule allows only
\* when its effect is exactly "allow"; with any other effect (deny, empty,
\* another case, unknown) the result is a denial, also on a policy Validate
\* would reject.
C27_FailsClosedOnEffect ==
    (evalDone /\ ~policy.IsNil) =>
        \A i \in 1..Len(policy.Rules) :
            IsFirstMatch(policy, claims, i) =>
                /\ evalResult.Allowed => policy.Rules[i].Effect = "allow"
                /\ policy.Rules[i].Effect # "allow" => ~evalResult.Allowed

\* a matching rule whose effect is "Allow" in a policy Validate rejects,
\* with the default at allow: denied
C27_Witness ==
    /\ evalDone
    /\ ~policy.IsNil
    /\ ~policy.DefaultDeny
    /\ Len(policy.Rules) = 1
    /\ policy.Rules[1].Effect = "Allow"
    /\ matchesRule(policy.Rules[1], claims)
    /\ ~PolicyValidate(policy).IsNil
    /\ evalResult.Allowed = FALSE

---------------------------------------------------------------------------
(* Properties of overlapping refreshes *)

\* C28: a GetKey whose own refresh built a set that holds the requested kid
\* returns that key, whatever the other goroutines do between its refresh
\* and its second lookup: it never returns ErrKeyNotFound.
C28_OwnRefreshServes ==
    [][\A p \in Procs :
          (/\ calls[p].pc = "relookup" /\ calls'[p].pc = "done"
           /\ calls[p].kid \in calls[p].newCache)
          => (calls'[p].err = NoError /\ calls'[p].key = calls[p].kid)]_vars

\* C29: when refreshes overlap, the set that ends up cached is the response
\* of the fetch issued last: no refresh writes the response of an earlier
\* fetch, with a newer time, over the response of a later fetch.
C29_LatestFetchWins ==
    [][lastCommit'.seq >= lastCommit.seq]_vars

---------------------------------------------------------------------------
(* Properties of the locking of GetKey and refresh *)

\* goroutine p is inside GetKey
InGetKey(p) == calls[p].pc \notin {"idle", "done"}

\* the lock is held for writing only between the two assignments of
\* refresh, never together with a reader, and by no goroutine that stands
\* before its request or holds its response
C30_LockDiscipline ==
    /\ mu # "free" => (mu \in Procs /\ calls[mu].pc = "stamp" /\ Readers = {})
    /\ \A p \in Procs :
          calls[p].pc \in {"fetch", "write"} => (mu # p /\ p \notin Readers)

\* a goroutine asking for the read lock gets it unless another goroutine is
\* between its two assignments: a fetch in flight blocks no reader
C30_ReadersNotBlocked ==
    \A p \in Procs :
        (/\ calls[p].pc \in {"rlock", "rerlock"}
         /\ \A q \in Procs : calls[q].pc # "stamp")
        => ENABLED RLock(p)

\* while a call is inside GetKey some call can take a step
C30_NoDeadlock ==
    (\E p \in Procs : InGetKey(p)) => \E q \in Procs : ENABLED GetKeyStep(q)

\* C30: the lock is never held across the HTTP fetch: the read lock is
\* released before refresh starts and the write lock is held only for the
\* swap of the set and its time; so a fetch in flight blocks no reader of
\* the cache, no interleaving of GetKey calls deadlocks, and every GetKey
\* call returns once its own request (if any) has returned.
C30_LockNotHeldAcrossFetch ==
    /\ [](C30_LockDiscipline /\ C30_ReadersNotBlocked /\ C30_NoDeadlock)
    /\ \A p \in Procs : InGetKey(p) ~> (calls[p].pc = "done")

\* g2 has missed and its request is in flight; g1 holds the read lock on a
\* set that is fresh and holds its key, and returns it in its next step
C30_Witness ==
    /\ calls["g2"].pc = "fetch" /\ calls["g2"].miss
    /\ calls["g1"].pc = "lookup" /\ calls["g1"].kid = "k1"
    /\ cache = {"k1"} /\ now - cachedAt < CacheDuration
    /\ mu = "free"
    /\ ENABLED Lookup("g1")

=============================================================================
